---- MODULE Spec2Model ----
(***************************************************************************)
(* A model of the static-semantics engine of millet.                       *)
(*                                                                         *)
(*   SpecSt        the checking state St (sml-statics/src/st.rs): err,     *)
(*                 insert_bind / insert_case / insert_handle, insert_hole  *)
(*                 and the consuming finish.                               *)
(*   SpecGetMatch  get_match (st.rs) as a function of the error list and   *)
(*                 of the answer of the pattern-match checker.             *)
(*   SpecSyms      the symbol table Syms (statics/src/types.rs).           *)
(*   SpecDec       the declaration checker ck (core/src/statics/ck/dec.rs) *)
(*                 on a sequence of datatype declarations.                 *)
(*   SpecExp       ck_exp (dec.rs) on one handle, case or fn expression.   *)
(***************************************************************************)
EXTENDS Naturals, Integers, Sequences, FiniteSets, TLC

VARIABLES
  st,    \* one checking state St (st.rs:13-22) and what its finish returned
  gm,    \* one call of get_match (st.rs:142-158)
  sy,    \* one symbol table Syms (types.rs:121-198)
  dk,    \* one run of the declaration checker ck (dec.rs:214-448) on a Dec::Seq
  ex,    \* one call of ck_exp (dec.rs:17-150) on a handle, case or fn expression
  lt,    \* one let expression in ck_exp (dec.rs:67-82)
  vb,    \* one call of ck on a Dec::Val or Dec::Fun (dec.rs:216-317)
  rc,    \* one record or tuple expression in ck_exp (dec.rs:30-51)
  sq,    \* one run of ck on a Dec::Seq of given declarations (dec.rs:435-444)
  pt,    \* one call of the pattern checker or the type checker (pat.rs:9-117, ty.rs:6-34)
  lg,    \* the end of the entry point: finish, then the types of the info (st.rs:133-137, lib.rs:43-49)
  ep,    \* the persistent Statics value and the call of get in progress (lib.rs:33-50)
  sd,    \* the symbol table with the schemes of its types (types.rs:120-198)
  bc,    \* one call of block_comment::get (block-comment/src/lib.rs:32-62)
  lx,    \* one call of the ML Basis lexer (mlb-syntax/src/lex.rs:5-92)
  gi,    \* one call of get_input: the work-list of groups (analysis/src/input.rs:181-234)
  ps     \* one Parser and the markers its caller holds (sml-parse/src/parser.rs:51-56)

vars == << st, gm, sy, dk, ex, lt, vb, rc, sq, pt, lg, ep, sd, bc, lx, gi, ps >>

\* what the steps of one component leave alone
notSt == << gm, sy, dk, ex, lt, vb, rc, sq, pt, lg, ep, sd, bc, lx, gi, ps >>
notGm == << st, sy, dk, ex, lt, vb, rc, sq, pt, lg, ep, sd, bc, lx, gi, ps >>
notSy == << st, gm, dk, ex, lt, vb, rc, sq, pt, lg, ep, sd, bc, lx, gi, ps >>
notDk == << st, gm, sy, ex, lt, vb, rc, sq, pt, lg, ep, sd, bc, lx, gi, ps >>
notEx == << st, gm, sy, dk, lt, vb, rc, sq, pt, lg, ep, sd, bc, lx, gi, ps >>
notLt == << st, gm, sy, dk, ex, vb, rc, sq, pt, lg, ep, sd, bc, lx, gi, ps >>
notVb == << st, gm, sy, dk, ex, lt, rc, sq, pt, lg, ep, sd, bc, lx, gi, ps >>
notRc == << st, gm, sy, dk, ex, lt, vb, sq, pt, lg, ep, sd, bc, lx, gi, ps >>
notSq == << st, gm, sy, dk, ex, lt, vb, rc, pt, lg, ep, sd, bc, lx, gi, ps >>
notPt == << st, gm, sy, dk, ex, lt, vb, rc, sq, lg, ep, sd, bc, lx, gi, ps >>
notLg == << st, gm, sy, dk, ex, lt, vb, rc, sq, pt, ep, sd, bc, lx, gi, ps >>
notEp == << st, gm, sy, dk, ex, lt, vb, rc, sq, pt, lg, sd, bc, lx, gi, ps >>
notSd == << st, gm, sy, dk, ex, lt, vb, rc, sq, pt, lg, ep, bc, lx, gi, ps >>
notBc == << st, gm, sy, dk, ex, lt, vb, rc, sq, pt, lg, ep, sd, lx, gi, ps >>
notLx == << st, gm, sy, dk, ex, lt, vb, rc, sq, pt, lg, ep, sd, bc, gi, ps >>
notGi == << st, gm, sy, dk, ex, lt, vb, rc, sq, pt, lg, ep, sd, bc, lx, ps >>
notPs == << st, gm, sy, dk, ex, lt, vb, rc, sq, pt, lg, ep, sd, bc, lx, gi >>

(***************************************************************************)
(* Bounds.                                                                 *)
(***************************************************************************)
\* operations (err, insert_*, insert_hole, a unification) on one St before finish
MaxOps == 3
\* length of the unreachable list the pattern-match checker returns (SpecGetMatch)
MaxUnreach == 3
\* largest raw pattern index (SpecGetMatch)
MaxPatIdx == 3
\* declarations in the sequence (SpecDec)
MaxDecs == 2
\* dat_binds in one datatype declaration (SpecDec)
MaxBinds == 2
\* constructors of one dat_bind (SpecDec)
MaxCons == 2
\* calls of Syms::insert (SpecSyms)
MaxInserts == 2
\* arms of one handle, case or fn (SpecExp)
MaxArms == 2
\* body expressions of one let (SpecLet)
MaxLetExps == 2
\* val_binds of one Dec::Val (SpecBind)
MaxValBinds == 2
\* fval_binds of one Dec::Fun (SpecBind)
MaxFvalBinds == 2
\* rows of one record expression, components of one tuple (SpecRecord)
MaxRows == 3
\* declarations of the sequence (SpecSeq)
MaxSeqDecs == 3
\* calls of the entry point and checks of one call (SpecEntry)
MaxCalls == 2
MaxTopDecs == 2
\* datatypes inserted after the built-in ones (SpecSeed)
MaxSeedInserts == 2
\* bytes of the input of block_comment::get (SpecComment)
MaxBytes == 8
\* bytes of the input of the ML Basis lexer (SpecLex)
MaxLexBytes == 4
\* group files of the file system, entries of the work-list (SpecInput)
MaxGroups == 3
MaxStack == 4
\* tokens of the input, events of the parser (SpecParse, SpecBacktrack)
MaxTokens == 2
MaxEvents == 5
MaxSaveEvents == 3
\* arms of a match on bool (SpecCase)
MaxBoolArms == 3
\* rows of a record pattern or record type (SpecPat)
MaxPatRows == 2
\* meta variables of the substitution, types recorded in the info (SpecGet)
MaxLgMetaVars == 2
MaxInfoTys == 2

(***************************************************************************)
(* Sequences.                                                              *)
(***************************************************************************)
SeqsUpTo(S, n) == UNION { [1..k -> S] : k \in 0..n }

IsPrefix(s, t) == Len(s) <= Len(t) /\ SubSeq(t, 1, Len(s)) = s

RECURSIVE Reverse(_)
Reverse(s) == IF s = << >> THEN << >> ELSE Append(Reverse(Tail(s)), Head(s))

RECURSIVE Concat(_)
Concat(ss) == IF ss = << >> THEN << >> ELSE Head(ss) \o Concat(Tail(ss))

(***************************************************************************)
(* Types, substitution.                                                    *)
(***************************************************************************)
MetaVars == {0, 1}

SymBOOL == 0
SymCHAR == 1
SymINT == 2
SymREAL == 3
SymSTRING == 4
SymWORD == 5
SymEXN == 6
SymREF == 7
SymLIST == 8
SymORDER == 9

TyNone == [tag |-> "None", arg |-> 0]
TyMetaVar(mv) == [tag |-> "MetaVar", arg |-> mv]
TyCon(sym) == [tag |-> "Con", arg |-> sym]
\* Ty::Fn(param, res)
TyFn(param, res) == [tag |-> "Fn", param |-> param, res |-> res]
\* Ty::Record(BTreeMap<Lab, Ty>): the map from the labels to the types of the rows
TyRecord(rows) == [tag |-> "Record", rows |-> rows]
Unsolved == [tag |-> "Unsolved", arg |-> 0]

SubstDefault == [mv \in MetaVars |-> Unsolved]

\* one look-up, without the walk into what was found
apply_one_step(subst, ty) ==
  IF ty.tag = "MetaVar" /\ subst[ty.arg] # Unsolved THEN subst[ty.arg] ELSE ty

\* util::apply: the recursive walk that replaces every solved meta variable
RECURSIVE apply(_, _)
apply(subst, ty) ==
  CASE ty.tag = "MetaVar" ->
         IF subst[ty.arg] # Unsolved THEN apply(subst, subst[ty.arg]) ELSE ty
    [] ty.tag = "Fn" -> TyFn(apply(subst, ty.param), apply(subst, ty.res))
    [] ty.tag = "Record" -> TyRecord([lab \in DOMAIN ty.rows |-> apply(subst, ty.rows[lab])])
    [] OTHER -> ty

(***************************************************************************)
(* Indices, errors, match obligations.                                     *)
(***************************************************************************)
\* sml_hir::Idx: the arena (category) and the raw index in it
Idx(cat, raw) == [cat |-> cat, raw |-> raw]

\* Option<PatIdx>, as one entry of Check::unreachable
NoPatIdx == [some |-> FALSE, raw |-> 0]
SomePatIdx(n) == [some |-> TRUE, raw |-> n]

\* Error { idx, kind }; ty is the payload of ExpHole, missing the payload of
\* NonExhaustiveBinding / NonExhaustiveCase
Error(idx, kind, ty, missing) == [idx |-> idx, kind |-> kind, ty |-> ty, missing |-> missing]

\* Match { kind, want, idx }; the patterns are the payload of kind
Match(kind, pats, want, idx) == [kind |-> kind, pats |-> pats, want |-> want, idx |-> idx]

\* The answer of pattern_match::check: Err, or Ok(Check { unreachable, missing })
CkErr == [ok |-> FALSE, unreachable |-> << >>, missing |-> << >>]
CkOk(unreachable, missing) == [ok |-> TRUE, unreachable |-> unreachable, missing |-> missing]

\* pattern_match::check(lang, pats, ty).  A pattern list is represented by the
\* answer the checker gives for it, so the checker is any function of its input.
pattern_match_check(pats, ty) == pats.ck

\* the constructor family of bool, in the order of its declaration
\* (types.rs:136)
BoolFamily == << "true", "false" >>

\* the arm at position i matches nothing that the arms before it left over
arm_shadowed(family, arms, i) ==
  \/ \E j \in 1..(i - 1) : arms[j] = "_" \/ arms[j] = arms[i]
  \/ /\ arms[i] = "_"
     /\ \A c \in 1..Len(family) : \E j \in 1..(i - 1) : arms[j] = family[c]

\* the constructors of the family that no arm covers, in the order of the family
RECURSIVE missing_of(_, _)
missing_of(family, arms) ==
  IF family = << >> THEN << >>
  ELSE IF \E j \in 1..Len(arms) : arms[j] = Head(family)
       THEN missing_of(Tail(family), arms)
       ELSE << Head(family) >> \o missing_of(Tail(family), arms)

\* the unreachable arms from position i on, in arm order
RECURSIVE unreachable_of(_, _, _)
unreachable_of(family, arms, i) ==
  IF i > Len(arms) THEN << >>
  ELSE IF arm_shadowed(family, arms, i)
       THEN << SomePatIdx(i) >> \o unreachable_of(family, arms, i + 1)
       ELSE unreachable_of(family, arms, i + 1)

\* pattern_match::check on arms that are a constructor without argument or a
\* wildcard, against the constructor family of the type
check_family(family, arms) ==
  CkOk(unreachable_of(family, arms, 1),
       IF \E j \in 1..Len(arms) : arms[j] = "_" THEN << >>
       ELSE IF arms = << >> THEN << "_" >>
       ELSE missing_of(family, arms))

(***************************************************************************)
(* St: the operations (st.rs:50-94).                                       *)
(***************************************************************************)
St_err_prepend(errors, idx, kind) == << Error(idx, kind, TyNone, << >>) >> \o errors

St_err(errors, idx, kind) == Append(errors, Error(idx, kind, TyNone, << >>))

St_insert_bind(matches, pat, want, idx) == Append(matches, Match("Bind", pat, want, idx))

St_insert_handle(matches, pats, want, idx) == Append(matches, Match("Handle", pats, want, idx))

St_insert_case(matches, pats, want, idx) == Append(matches, Match("Case", pats, want, idx))

St_insert_hole(holes, mv, idx) == Append(holes, << mv, idx >>)

(***************************************************************************)
(* get_match (st.rs:142-158).                                              *)
(***************************************************************************)
\* ck.unreachable.into_iter().flatten().collect()
RECURSIVE flatten(_)
flatten(s) ==
  IF s = << >> THEN << >>
  ELSE IF Head(s).some THEN << Head(s).raw >> \o flatten(Tail(s))
       ELSE flatten(Tail(s))

\* insertion of x into the sorted sequence s
RECURSIVE SortedInsert(_, _)
SortedInsert(x, s) ==
  IF s = << >> THEN << x >>
  ELSE IF x <= Head(s) THEN << x >> \o s
       ELSE << Head(s) >> \o SortedInsert(x, Tail(s))

sort_unsorted(s) == s

\* unreachable.sort_unstable_by_key(|x| x.into_raw())
RECURSIVE sort_unstable_by_key(_)
sort_unstable_by_key(s) ==
  IF s = << >> THEN << >> ELSE SortedInsert(Head(s), sort_unstable_by_key(Tail(s)))

\* for idx in unreachable { errors.push(Error { idx: idx.into(), kind: UnreachablePattern }) }
RECURSIVE push_unreachable(_, _)
push_unreachable(errors, unreachable) ==
  IF unreachable = << >> THEN errors
  ELSE push_unreachable(
         Append(errors, Error(Idx("pat", Head(unreachable)), "UnreachablePattern", TyNone, << >>)),
         Tail(unreachable))

get_match_err_as_missing(errors, ck) ==
  IF ~ck.ok THEN [errors |-> errors, missing |-> << "_" >>]
  ELSE [errors  |-> push_unreachable(errors, sort_unstable_by_key(flatten(ck.unreachable))),
        missing |-> ck.missing]

\* returns the missing pats, and the error list as get_match leaves it
get_match(errors, ck) ==
  IF ~ck.ok THEN [errors |-> errors, missing |-> << >>]
  ELSE [errors  |-> push_unreachable(errors, sort_unstable_by_key(flatten(ck.unreachable))),
        missing |-> ck.missing]

(***************************************************************************)
(* St::finish (st.rs:96-138).                                              *)
(***************************************************************************)
\* for (mv, idx) in self.holes { ... errors.push(ExpHole(ty)) }
RECURSIVE finish_holes(_, _, _)
finish_holes(subst, errors, holes) ==
  IF holes = << >> THEN errors
  ELSE finish_holes(subst,
         Append(errors, Error(Head(holes)[2], "ExpHole",
                              apply(subst, TyMetaVar(Head(holes)[1])), << >>)),
         Tail(holes))

\* an iteration that asks no exhaustiveness of a Case
finish_match_case_silent(subst, errors, m) ==
  LET got == get_match(errors, pattern_match_check(m.pats, apply(subst, m.want)))
  IN  IF m.kind = "Bind" /\ got.missing # << >>
      THEN Append(got.errors, Error(m.idx, "NonExhaustiveBinding", TyNone, got.missing))
      ELSE got.errors

\* one iteration of `for mut m in self.matches`
finish_match(subst, errors, m) ==
  LET got == get_match(errors, pattern_match_check(m.pats, apply(subst, m.want)))
  IN  CASE m.kind = "Bind" ->
             IF got.missing # << >>
             THEN Append(got.errors, Error(m.idx, "NonExhaustiveBinding", TyNone, got.missing))
             ELSE got.errors
        [] m.kind = "Case" ->
             IF got.missing # << >>
             THEN Append(got.errors, Error(m.idx, "NonExhaustiveCase", TyNone, got.missing))
             ELSE got.errors
        [] m.kind = "Handle" -> got.errors

RECURSIVE finish_matches_last_first(_, _, _)
finish_matches_last_first(subst, errors, matches) ==
  IF matches = << >> THEN errors
  ELSE finish_matches_last_first(subst,
         finish_match(subst, errors, matches[Len(matches)]),
         SubSeq(matches, 1, Len(matches) - 1))

\* for mut m in self.matches { ... }
RECURSIVE finish_matches(_, _, _)
finish_matches(subst, errors, matches) ==
  IF matches = << >> THEN errors
  ELSE finish_matches(subst, finish_match(subst, errors, Head(matches)), Tail(matches))

\* a finish that resolves the match obligations before the holes
St_finish_matches_first(subst, errors, holes, matches) ==
  finish_holes(subst, finish_matches(subst, errors, matches), holes)

\* the error list of the triple finish returns
St_finish(subst, errors, holes, matches) ==
  finish_matches(subst, finish_holes(subst, errors, holes), matches)

(***************************************************************************)
(* Inputs of SpecSt.                                                       *)
(***************************************************************************)
ErrorKinds == {"Undefined"}

\* the pattern lists a caller defers: each with the checker's answer for it
StPats ==
  { [ck |-> c] : c \in
      { CkErr,
        CkOk(<< >>, << >>),
        CkOk(<< SomePatIdx(2), NoPatIdx, SomePatIdx(1) >>, << >>),
        CkOk(<< >>, << "_" >>),
        CkOk(<< SomePatIdx(1) >>, << "_" >>) } }

WantTys == { TyMetaVar(0) }

\* the IR node an operation is called for: nodes are visited one after the other
NodeIdx(n) == Idx("exp", n)

(***************************************************************************)
(* The symbol table (statics/src/types.rs:103-198).                        *)
(***************************************************************************)
\* TyInfo { name, ty_scheme, val_env }: the name, the arity of the scheme and the
\* names of the value constructors
TyInfo(name, arity, ctors) == [name |-> name, arity |-> arity, ctors |-> ctors]

\* impl Default for Syms: the store of the built-in types, in the order of the
\* constants Sym::BOOL .. Sym::ORDER (0-based in the code, so Sym(n) is store[n + 1])
Syms_default ==
  << TyInfo("bool", 0, {"true", "false"}),
     TyInfo("char", 0, {}),
     TyInfo("int", 0, {}),
     TyInfo("real", 0, {}),
     TyInfo("string", 0, {}),
     TyInfo("word", 0, {}),
     TyInfo("exn", 0, {}),
     TyInfo("ref", 1, {"ref"}),
     TyInfo("list", 1, {"nil", "::"}),
     TyInfo("order", 0, {"LESS", "EQUAL", "GREATER"}) >>

Syms_insert_no_push(store, ty_info) == [store |-> store, sym |-> Len(store)]

Syms_insert_front(store, ty_info) == [store |-> << ty_info >> \o store, sym |-> Len(store)]

\* Syms::insert: let ret = Sym(self.store.len()); self.store.push(ty_info); ret
Syms_insert(store, ty_info) == [store |-> Append(store, ty_info), sym |-> Len(store)]

\* whether Syms::get finds an entry (the unwrap does not panic)
Syms_has(store, sym) == sym + 1 \in 1..Len(store)

\* Syms::get: self.store.get(sym.0).unwrap()
Syms_get(store, sym) == store[sym + 1]

\* State::new_sym: a new symbol for the type being generated
new_sym(syms, ty_con) == Syms_insert(syms, TyInfo(ty_con, 0, {}))

(***************************************************************************)
(* Environments of the declaration checker (core/src/statics/ck/dec.rs).   *)
(***************************************************************************)
EmptyMap == [k \in {} |-> 0]

\* HashMap::insert: the map with key bound to val, replacing an earlier binding
MapInsert(map, key, val) ==
  [k \in (DOMAIN map) \cup {key} |-> IF k = key THEN val ELSE map[k]]

\* HashMap::extend: the bindings of other replace those of map
MapExtend(map, other) ==
  [k \in (DOMAIN map) \cup (DOMAIN other) |-> IF k \in DOMAIN other THEN other[k] ELSE map[k]]

\* Env { ty_env, val_env, str_env: StrEnv::new() }
Env(ty_env, val_env) == [ty_env |-> ty_env, val_env |-> val_env]

\* Env::default()
EnvDefault == Env(EmptyMap, EmptyMap)

\* Env::extend: later bindings shadow earlier ones by replacement
Env_extend(env, other) ==
  Env(MapExtend(env.ty_env, other.ty_env), MapExtend(env.val_env, other.val_env))

\* Cx { ty_names, env }
Cx(ty_names, env) == [ty_names |-> ty_names, env |-> env]

\* Cx::o_plus: the context extended with an environment and its type names
Cx_o_plus(cx, env) ==
  Cx(cx.ty_names \cup DOMAIN env.ty_env, Env_extend(cx.env, env))

\* util::env_ins: insertion with dupe checking
env_ins_ok(map, key) == key \notin DOMAIN map

\* Result<_>: Ok(env), Err(error) or a failed assert!
Ok(env) == [tag |-> "Ok", kind |-> "", name |-> "", env |-> env]
ErrResult(kind, name) == [tag |-> "Err", kind |-> kind, name |-> name, env |-> EnvDefault]
Panic(what) == [tag |-> "Panic", kind |-> what, name |-> "", env |-> EnvDefault]
NoResult == [tag |-> "None", kind |-> "", name |-> "", env |-> EnvDefault]

\* ck_binding: the names of the built-in constructors may not be bound
ForbiddenNames == {"true", "false", "nil", "::", "ref"}

ck_binding_ok_no_nil(name) == name \notin (ForbiddenNames \ {"nil"})

ck_binding_ok(name) == name \notin ForbiddenNames

NoTy == "-"

\* ty::ck of a type constructor without arguments: the type name is looked up in
\* the type environment of the context
ty_ck_ok(cx, ty_con) == ty_con \in DOMAIN cx.env.ty_env

ty_ck(cx, ty_con) == cx.env.ty_env[ty_con]

\* the type of a constructor: Ty::Ctor([], sym), or Ty::Arrow(arg, Ty::Ctor([], sym))
\* when there is an `of t`; arg is the symbol of t, -1 without `of`
CtorTy(arg, sym) == [arg |-> arg, res |-> sym]

\* DatatypeInfo { ty_fcn: TyScheme::mono(Ty::Ctor([], sym)), val_env }
DatatypeInfo(sym, val_env) == [ty_fcn |-> sym, val_env |-> val_env]

\* the DatatypeInfo inserted before the constructors are checked
placeholder_info(sym) == DatatypeInfo(sym, EmptyMap)

final_info_overall(sym, val_env, bind_val_env) == DatatypeInfo(sym, val_env)

\* the DatatypeInfo inserted after the constructors are checked
final_info(sym, val_env, bind_val_env) == DatatypeInfo(sym, bind_val_env)

seq_accumulate_swapped(ret, env) == Env_extend(env, ret)

\* Dec::Seq: ret.extend(ck(&cx, st, dec)?)
seq_accumulate(ret, env) == Env_extend(ret, env)

(***************************************************************************)
(* ck_exp on handle, case and fn, and ck_cases (dec.rs:117-123, 138-174).  *)
(***************************************************************************)
\* The types of this fragment: a base type by name, "any" for a type variable
\* that nothing has been unified with yet.  ExTy(arg, res) is Ty::Arrow(arg, res)
\* and, with arg = "", the type res.
ExTy(arg, res) == [arg |-> arg, res |-> res]

\* Result<Ty>
ExOk(ty) == [tag |-> "Ok", kind |-> "", ty |-> ty]
ExErr(kind) == [tag |-> "Err", kind |-> kind, ty |-> ExTy("", "")]
ExNone == [tag |-> "None", kind |-> "", ty |-> ExTy("", "")]

\* pat::ck: the type of a pattern: a wildcard has a fresh type variable, an
\* exception constructor the type exn, true and false the type bool
pat_ty(pat) ==
  CASE pat = "_" -> "any"
    [] pat \in {"E1", "E2"} -> "exn"
    [] pat \in {"true", "false"} -> "bool"

\* st.subst.unify on these types: whether it succeeds, and the unified type
unify_ok(want, got) == want = "any" \/ got = "any" \/ want = got

unified(want, got) == IF want = "any" THEN got ELSE want

\* exhaustive::ck: whether the patterns cover every value of the type: a
\* wildcard covers all; bool is covered by true and false; the family of exn
\* is open and covered by a wildcard only
exhaustive_ck(arg_ty, pats) ==
  \/ "_" \in pats
  \/ arg_ty = "bool" /\ {"true", "false"} \subseteq pats

\* the loop of ck_cases over the arms (dec.rs:156-167): the argument and result
\* types after the arms, or the type error of the first arm that does not unify
RECURSIVE ck_arms(_, _, _)
ck_arms(arms, arg_ty, res_ty) ==
  IF arms = << >> THEN [ok |-> TRUE, arg |-> arg_ty, res |-> res_ty]
  ELSE IF ~unify_ok(arg_ty, pat_ty(Head(arms).pat)) \/ ~unify_ok(res_ty, Head(arms).body)
       THEN [ok |-> FALSE, arg |-> arg_ty, res |-> res_ty]
       ELSE ck_arms(Tail(arms), unified(arg_ty, pat_ty(Head(arms).pat)),
                    unified(res_ty, Head(arms).body))

\* ck_cases (dec.rs:152-174): Ok((arg_ty, res_ty)), held as the arrow type
ck_cases(arms) ==
  LET r == ck_arms(arms, "any", "any")
  IN  IF ~r.ok THEN ExErr("TyMismatch")
      ELSE IF exhaustive_ck(r.arg, { arms[i].pat : i \in 1..Len(arms) })
           THEN ExOk(ExTy(r.arg, r.res))
           ELSE ExErr("NonExhaustiveMatch")

\* ck_exp on Exp::Handle (dec.rs:117-123), Exp::Case (138-143), Exp::Fn (144-147);
\* head is the type of the head expression
ck_exp(form, head, arms) ==
  LET r == ck_cases(arms)
  IN  IF r.tag = "Err" THEN r
      ELSE CASE form = "Handle" ->
                  IF ~unify_ok("exn", r.ty.arg) \/ ~unify_ok(head, r.ty.res)
                  THEN ExErr("TyMismatch")
                  ELSE ExOk(ExTy("", head))
             [] form = "Case" ->
                  IF ~unify_ok(head, r.ty.arg)
                  THEN ExErr("TyMismatch")
                  ELSE ExOk(ExTy("", r.ty.res))
             [] form = "Fn" -> ExOk(r.ty)

(***************************************************************************)
(* The state of the other components at construction.                      *)
(***************************************************************************)
\* Syms::default(); issued records what each insert was given and returned
SyNew == [store |-> Syms_default, issued |-> << >>]

\* the context the declaration checker is called with: the type int is in scope
Cx0 == Cx({"int"}, Env(MapInsert(EmptyMap, "int", SymINT), EmptyMap))

\* ck called on a Dec::Seq (dec.rs:435-438): cx cloned, ret = Env::default().
\*   pc           where the checker stands: "seq" (the loop of Dec::Seq), "dat"
\*                (the loop over dat_binds), "con" (the loop over cons), "done"
\*   syms         the symbols of the State, datatypes its DatatypeInfo map
\*   minted       the symbols new_sym returned so far
\*   seq_cx, seq_ret, ndecs   cx, ret and the number of decs done, in Dec::Seq
\*   envs         the environments the decs of the sequence returned so far
\*   cx, ty_env, val_env, names, j   the locals of Dec::Datatype: names are the
\*                ty_con of its dat_binds, j the number of dat_binds begun
\*   sym, bind_val_env, cons  the locals of one dat_bind: cons are the names of
\*                the constructors checked so far
\*   result       what ck returned
DkNew ==
  [ pc |-> "seq", syms |-> Syms_default, datatypes |-> EmptyMap, minted |-> << >>,
    seq_cx |-> Cx0, seq_ret |-> EnvDefault, ndecs |-> 0, envs |-> << >>,
    cx |-> Cx0, ty_env |-> EmptyMap, val_env |-> EmptyMap, names |-> << >>, j |-> 0,
    sym |-> 0, bind_val_env |-> EmptyMap, cons |-> << >>,
    result |-> NoResult ]

\* no symbol table constructed
SyIdle == [store |-> << >>, issued |-> << >>]

\* ck not called
DkIdle == [DkNew EXCEPT !.pc = "idle", !.syms = << >>]

\* ck_exp not called
ExIdle == [form |-> "Fn", head |-> "int", arms |-> << >>, called |-> FALSE, result |-> ExNone]

(***************************************************************************)
(* ck_exp on Exp::Let (dec.rs:67-82).                                      *)
(***************************************************************************)
\* Ty::ty_names: the names of the type constructors a type mentions
RECURSIVE ty_names(_, _)
ty_names(store, ty) ==
  CASE ty.tag = "Con" -> { Syms_get(store, ty.arg).name }
    [] ty.tag = "Fn" -> ty_names(store, ty.param) \cup ty_names(store, ty.res)
    [] ty.tag = "Record" -> UNION { ty_names(store, ty.rows[lab]) : lab \in DOMAIN ty.rows }
    [] OTHER -> {}

\* Result<Ty> of ck_exp
LtOk(ty) == [tag |-> "Ok", kind |-> "", ty |-> ty]
LtErr(kind) == [tag |-> "Err", kind |-> kind, ty |-> TyNone]
LtNone == [tag |-> "None", kind |-> "", ty |-> TyNone]

\* the environment ck returns for the datatype declarations of the let: a new
\* symbol for each declared name (dec.rs:350-365, 412-416)
RECURSIVE let_dec_env(_, _)
let_dec_env(store, names) ==
  IF names = << >> THEN [store |-> store, ty_env |-> EmptyMap]
  ELSE LET new  == new_sym(store, Head(names))
           rest == let_dec_env(new.store, Tail(names))
       IN  [store |-> rest.store, ty_env |-> MapInsert(rest.ty_env, Head(names), new.sym)]

let_ty_names_after(cx, env) == Cx_o_plus(cx, env).ty_names

\* let ty_names = cx.ty_names.clone(); taken before cx.o_plus(env) (dec.rs:70-71)
let_ty_names(cx, env) == cx.ty_names

\* dec.rs:76-81: apply the substitution, then the check of the type names
let_end(saved_ty_names, store, subst, ty) ==
  LET applied == apply(subst, ty)
  IN  IF ~(ty_names(store, applied) \subseteq saved_ty_names)
      THEN LtErr("TyNameEscape")
      ELSE LtOk(applied)

\* the symbol of a datatype t declared before the let
SymOuterT == 10

\* the contexts ck_exp is called with on the let: int in scope, or int and t
LtOuter ==
  { [cx |-> Cx0, store |-> Syms_default],
    [cx    |-> Cx({"int", "t"},
                  Env(MapInsert(MapInsert(EmptyMap, "int", SymINT), "t", SymOuterT), EmptyMap)),
     store |-> Append(Syms_default, TyInfo("t", 0, {}))] }

\* ck_exp entered on Exp::Let with context outer.
\*   pc        "dec" (before ck of the declaration), "body" (the loop over
\*             exps), "done"
\*   outer     the context of the call, store the symbols of the State
\*   ty_names, cx, subst, last, nexps   the locals of the branch and st.subst
\*   checked   the check of dec.rs:78 was reached
\*   result    what ck_exp returned
LtNew(outer) ==
  [ pc |-> "dec", outer |-> outer.cx, store |-> outer.store, ty_names |-> {},
    cx |-> outer.cx, subst |-> SubstDefault, last |-> LtNone, nexps |-> 0,
    checked |-> FALSE, result |-> LtNone ]

\* ck_exp not called on a let
LtIdle == [LtNew([cx |-> Cx0, store |-> << >>]) EXCEPT !.pc = "idle"]

(***************************************************************************)
(* ck on Dec::Val and Dec::Fun (dec.rs:216-317).                           *)
(***************************************************************************)
\* a Loc: the node an error is wrapped with, n the index of the binding
VbLoc(at, n) == [at |-> at, n |-> n]

\* Result<Env>: the value environment by the names it binds
VbOk(val_env) == [tag |-> "Ok", kind |-> "", name |-> "", loc |-> VbLoc("", 0), val_env |-> val_env]
VbErr(kind, name, loc) == [tag |-> "Err", kind |-> kind, name |-> name, loc |-> loc, val_env |-> {}]
VbNone == [tag |-> "None", kind |-> "", name |-> "", loc |-> VbLoc("", 0), val_env |-> {}]

\* for &name in other.keys() { ck_binding(..)? }: the first name, in the order
\* the map iterates, that ck_binding rejects; "" when there is none (dec.rs:226-228)
RECURSIVE ck_binding_keys(_)
ck_binding_keys(keys) ==
  IF keys = << >> THEN ""
  ELSE IF ~ck_binding_ok(Head(keys)) THEN Head(keys)
       ELSE ck_binding_keys(Tail(keys))

\* for (name, val_info) in other { env_ins(&mut val_env, ..)? }: the first name
\* that val_env binds already; "" when there is none (dec.rs:235-243)
RECURSIVE env_ins_keys(_, _)
env_ins_keys(val_env, keys) ==
  IF keys = << >> THEN ""
  ELSE IF ~env_ins_ok(val_env, Head(keys)) THEN Head(keys)
       ELSE env_ins_keys(val_env, Tail(keys))

\* a val_bind as the checker sees it: rec, whether pat::ck succeeds, keys (the
\* names of the ValEnv pat::ck returns, in the order the map iterates), and
\* rest, how the steps after ck_binding end
ValBind(rec, pat_ok, keys, rest) == [rec |-> rec, pat_ok |-> pat_ok, keys |-> keys, rest |-> rest]

\* the loop `for val_bind in val_binds` from the i-th val_bind on (dec.rs:221-244);
\* val_env is a map whose domain are the names bound so far
RECURSIVE ck_val_binds(_, _, _)
ck_val_binds(val_binds, i, val_env) ==
  IF i > Len(val_binds) THEN VbOk(DOMAIN val_env)
  ELSE LET val_bind == val_binds[i]
           keys     == val_bind.keys
       IN  IF val_bind.rec THEN VbErr("Todo", "", VbLoc("dec", 0))
           ELSE IF ~val_bind.pat_ok THEN VbErr("Undefined", "", VbLoc("pat", i))
           ELSE IF ck_binding_keys(keys) # ""
           THEN VbErr("ForbiddenBinding", ck_binding_keys(keys), VbLoc("pat", i))
           ELSE IF val_bind.rest = "exp_err" THEN VbErr("Undefined", "", VbLoc("exp", i))
           ELSE IF val_bind.rest = "unify_err" THEN VbErr("TyMismatch", "", VbLoc("dec", 0))
           ELSE IF val_bind.rest = "non_exhaustive"
           THEN VbErr("NonExhaustiveBinding", "", VbLoc("pat", i))
           ELSE IF env_ins_keys(val_env, keys) # ""
           THEN VbErr("Redefined", env_ins_keys(val_env, keys), VbLoc("pat", i))
           ELSE ck_val_binds(val_binds, i + 1,
                             MapExtend(val_env, [k \in { keys[n] : n \in 1..Len(keys) } |-> 0]))

\* ck on Dec::Val(ty_vars, val_binds) (dec.rs:216-246)
ck_val(ty_vars, val_binds) ==
  IF ty_vars THEN VbErr("Todo", "", VbLoc("ty_var", 0))
  ELSE ck_val_binds(val_binds, 1, EmptyMap)

\* an fval_bind as the checker sees it: vid (the name of its first case) and
\* how the checks of its cases end
FvalBind(vid, cases) == [vid |-> vid, cases |-> cases]

\* the first loop of Dec::Fun: env_ins(&mut fun_infos, first.vid, info)? (dec.rs:252-259)
RECURSIVE fun_infos_ins(_, _, _)
fun_infos_ins(fval_binds, i, fun_infos) ==
  IF i > Len(fval_binds) THEN VbOk(DOMAIN fun_infos)
  ELSE IF ~env_ins_ok(fun_infos, fval_binds[i].vid)
       THEN VbErr("Redefined", fval_binds[i].vid, VbLoc("vid", i))
       ELSE fun_infos_ins(fval_binds, i + 1, MapInsert(fun_infos, fval_binds[i].vid, 0))

\* the second loop of Dec::Fun, from the i-th fval_bind on (dec.rs:260-310)
RECURSIVE ck_fval_binds(_, _, _)
ck_fval_binds(fval_binds, i, names) ==
  IF i > Len(fval_binds) THEN VbOk(names)
  ELSE LET cases == fval_binds[i].cases
       IN  CASE cases = "ok" -> ck_fval_binds(fval_binds, i + 1, names)
             [] cases \in {"FunDecNameMismatch", "FunDecWrongNumPats"} ->
                  VbErr(cases, "", VbLoc("vid", i))
             [] cases = "Undefined" -> VbErr(cases, "", VbLoc("pat", i))
             [] cases = "TyMismatch" -> VbErr(cases, "", VbLoc("body", i))
             [] cases = "NonExhaustiveMatch" -> VbErr(cases, "", VbLoc("fval_bind", i))

\* ck on Dec::Fun(ty_vars, fval_binds) (dec.rs:247-317)
ck_fun(ty_vars, fval_binds) ==
  IF ty_vars THEN VbErr("Todo", "", VbLoc("ty_var", 0))
  ELSE LET infos == fun_infos_ins(fval_binds, 1, EmptyMap)
       IN  IF infos.tag = "Err" THEN infos
           ELSE ck_fval_binds(fval_binds, 1, infos.val_env)

\* ck not called on a Dec::Val or Dec::Fun
VbIdle == [form |-> "", ty_vars |-> FALSE, binds |-> << >>, called |-> FALSE, result |-> VbNone]

(***************************************************************************)
(* ck_exp on Exp::Record and Exp::Tuple (dec.rs:30-51).                    *)
(***************************************************************************)
\* Label::Name(name) and Label::Num(num)
LabName(name) == [kind |-> "Name", num |-> 0, name |-> name]
LabNum(num) == [kind |-> "Num", num |-> num, name |-> ""]
NoLab == [kind |-> "", num |-> 0, name |-> ""]

\* tuple_lab: the label of the component with 0-based index idx, as in
\* `(Label::Num(1), lhs_ty), (Label::Num(2), rhs_ty)` (dec.rs:98)
tuple_lab(idx) == LabNum(idx + 1)

\* a row of a record expression: its label and the answer of ck_exp on its expression
RcExpOk(ty) == [ok |-> TRUE, ty |-> ty]
RcExpErr == [ok |-> FALSE, ty |-> TyNone]
Row(lab, exp) == [lab |-> lab, exp |-> exp]

\* Result<Ty> of ck_exp, an error with its label and the row it is located at
RcOk(ty) == [tag |-> "Ok", kind |-> "", lab |-> NoLab, at |-> "", row |-> 0, ty |-> ty]
RcErr(kind, lab, at, row) == [tag |-> "Err", kind |-> kind, lab |-> lab, at |-> at, row |-> row, ty |-> TyNone]
RcNone == [tag |-> "None", kind |-> "", lab |-> NoLab, at |-> "", row |-> 0, ty |-> TyNone]

\* the types of the rows kept by the position they were pushed at
ty_record_vec(ty_rows) == TyRecord([i \in 1..Len(ty_rows) |-> ty_rows[i].ty])

\* Ty::Record(ty_rows): the rows as the map from label to type (types.rs:17)
ty_record(ty_rows) ==
  TyRecord([lab \in { ty_rows[i].lab : i \in 1..Len(ty_rows) } |->
              (CHOOSE r \in { ty_rows[i] : i \in 1..Len(ty_rows) } : r.lab = lab).ty])

\* a loop that remembers the label of the row before only
RECURSIVE ck_record_rows_adjacent(_, _, _, _)
ck_record_rows_adjacent(rows, i, keys, ty_rows) ==
  IF i > Len(rows) THEN RcOk(ty_record(ty_rows))
  ELSE IF ~rows[i].exp.ok THEN RcErr("Undefined", NoLab, "exp", i)
       ELSE IF rows[i].lab \in keys THEN RcErr("DuplicateLabel", rows[i].lab, "lab", i)
            ELSE ck_record_rows_adjacent(rows, i + 1, { rows[i].lab },
                   Append(ty_rows, [lab |-> rows[i].lab, ty |-> rows[i].exp.ty]))

\* the loop of Exp::Record from the i-th row on (dec.rs:33-40)
RECURSIVE ck_record_rows(_, _, _, _)
ck_record_rows(rows, i, keys, ty_rows) ==
  IF i > Len(rows) THEN RcOk(ty_record(ty_rows))
  ELSE IF ~rows[i].exp.ok THEN RcErr("Undefined", NoLab, "exp", i)
       ELSE IF rows[i].lab \in keys THEN RcErr("DuplicateLabel", rows[i].lab, "lab", i)
            ELSE ck_record_rows(rows, i + 1, keys \cup { rows[i].lab },
                                Append(ty_rows, [lab |-> rows[i].lab, ty |-> rows[i].exp.ty]))

\* ck_exp on Exp::Record(rows) (dec.rs:30-41)
ck_record(rows) == ck_record_rows(rows, 1, {}, << >>)

\* the loop of Exp::Tuple from the i-th expression on (dec.rs:45-50)
RECURSIVE ck_tuple_exps(_, _, _)
ck_tuple_exps(exps, i, ty_rows) ==
  IF i > Len(exps) THEN RcOk(ty_record(ty_rows))
  ELSE IF ~exps[i].ok THEN RcErr("Undefined", NoLab, "exp", i)
       ELSE ck_tuple_exps(exps, i + 1,
                          Append(ty_rows, [lab |-> tuple_lab(i - 1), ty |-> exps[i].ty]))

\* ck_exp on Exp::Tuple(exps) (dec.rs:43-51)
ck_tuple(exps) == ck_tuple_exps(exps, 1, << >>)

\* unification: whether the two types unify; a meta variable and the sentinel
\* Ty::None unify with every type
RECURSIVE unify_tys_ok(_, _)
unify_tys_ok(a, b) ==
  CASE a.tag = "MetaVar" \/ b.tag = "MetaVar" -> TRUE
    [] a.tag = "None" \/ b.tag = "None" -> TRUE
    [] a.tag = "Con" /\ b.tag = "Con" -> a.arg = b.arg
    [] a.tag = "Fn" /\ b.tag = "Fn" ->
         unify_tys_ok(a.param, b.param) /\ unify_tys_ok(a.res, b.res)
    [] a.tag = "Record" /\ b.tag = "Record" ->
         /\ DOMAIN a.rows = DOMAIN b.rows
         /\ \A lab \in DOMAIN a.rows : unify_tys_ok(a.rows[lab], b.rows[lab])
    [] OTHER -> FALSE

\* ck_exp not called on a record or tuple.  rows is the expression (for a
\* tuple the labels are absent), other a record expression with the same rows
\* written in another order
RcIdle ==
  [ form |-> "", rows |-> << >>, other |-> << >>, called |-> FALSE,
    result |-> RcNone, other_result |-> RcNone ]

(***************************************************************************)
(* ck on Dec::Seq over given declarations (dec.rs:435-444).                *)
(***************************************************************************)
\* what ck returns for one declaration of the sequence, by the kind of the
\* declaration: a fixity declaration (dec.rs:445) and a well-formed datatype
\* (dec.rs:412-416) give an Env, an exception declaration is not supported
\* (dec.rs:423-426), a constructor argument of an unknown type is undefined
\* (dec.rs:385), a constructor named like a built-in one is forbidden (dec.rs:379)
seq_dec_result(dec) ==
  CASE dec = "infix" -> Ok(EnvDefault)
    [] dec = "datatype" -> Ok(EnvDefault)
    [] dec = "exception" -> ErrResult("Todo", "")
    [] dec = "datatype_of_unknown" -> ErrResult("Undefined", "c")
    [] dec = "datatype_true" -> ErrResult("ForbiddenBinding", "true")

\* ck entered on Dec::Seq(decs): i counts the iterations of the loop done,
\* failed is the index of the declaration whose error ck returned (0: none)
SqNew(decs) == [pc |-> "seq", decs |-> decs, i |-> 0, failed |-> 0, result |-> NoResult]

\* ck not called
SqIdle == [SqNew(<< >>) EXCEPT !.pc = "idle"]

(***************************************************************************)
(* The pattern checker and the type checker (statics/src/pat.rs, ty.rs).   *)
(***************************************************************************)
\* hir::Path: the structures it goes through and its last name
Path(structures, last) == [structures |-> structures, last |-> last]

\* hir::Pat; NoArg is the None of the Option<PatIdx> of hir::Pat::Con
HPatNone == [tag |-> "None"]
HPatWild == [tag |-> "Wild"]
HPatSCon(scon) == [tag |-> "SCon", scon |-> scon]
HPatCon(path, arg) == [tag |-> "Con", path |-> path, arg |-> arg]
HPatRecord(rows, allows_other) == [tag |-> "Record", rows |-> rows, allows_other |-> allows_other]
HPatTyped(pat, ty) == [tag |-> "Typed", pat |-> pat, ty |-> ty]
HPatAs(name, pat) == [tag |-> "As", name |-> name, pat |-> pat]
NoArg == [tag |-> "NoArg"]

\* hir::Ty
HTyNone == [tag |-> "None"]
HTyVar == [tag |-> "Var"]
HTyRecord(rows) == [tag |-> "Record", rows |-> rows]
HTyCon(args, path) == [tag |-> "Con", args |-> args, path |-> path]
HTyFn(param, res) == [tag |-> "Fn", param |-> param, res |-> res]

\* pat_match::Pat: a constructor Con (Any, Int, .., Variant(sym, name),
\* Record(labs)) applied to argument patterns
PmCon(kind, sym, name, labs) == [kind |-> kind, sym |-> sym, name |-> name, labs |-> labs]
PmPat(con, args) == [con |-> con, args |-> args]
PmAny == PmPat(PmCon("Any", 0, "", << >>), << >>)
PmVariant(sym, name, args) == PmPat(PmCon("Variant", sym, name, << >>), args)

\* Ty::BoundVar(BoundTyVar(0)), the bound variable of a scheme
TyBoundVar == [tag |-> "BoundVar", arg |-> 0]

\* TyScheme { vars, ty }, vars the number of variables it binds
TyScheme(n, ty) == [vars |-> n, ty |-> ty]

\* ValInfo { ty_scheme, id_status }
ValInfo(ty_scheme, id_status) == [ty_scheme |-> ty_scheme, id_status |-> id_status]

\* Env { str_env, ty_env, val_env } (types.rs:232-236)
PtEnv(str_env, ty_env, val_env) == [str_env |-> str_env, ty_env |-> ty_env, val_env |-> val_env]

\* the part of St these checkers use: the errors, the meta variable generator
\* and the substitution
PtStNew == [errors |-> << >>, next_mv |-> 0, subst |-> EmptyMap]

\* St::err
pt_err(s, kind) == [s EXCEPT !.errors = Append(s.errors, kind)]

\* a result (Pat, Ty), or a panic
PtRet(s, pat, ty) == [panic |-> FALSE, st |-> s, pat |-> pat, ty |-> ty]
PtPanic(s) == [panic |-> TRUE, st |-> s, pat |-> PmAny, ty |-> TyNone]

\* fn any: a wildcard for matching, typed by a fresh meta variable (pat.rs:119-121)
any(s) ==
  PtRet([s EXCEPT !.next_mv = s.next_mv + 1, !.subst = MapInsert(s.subst, s.next_mv, Unsolved)],
        PmAny, TyMetaVar(s.next_mv))

\* util::get_scon
get_scon(scon) == IF scon = "Int" THEN TyCon(SymINT) ELSE TyCon(SymREAL)

\* util::get_env: the environment a path leads to through its structures
RECURSIVE get_env(_, _)
get_env(env, structures) ==
  IF structures = << >> THEN [ok |-> TRUE, env |-> env]
  ELSE IF Head(structures) \in DOMAIN env.str_env
       THEN get_env(env.str_env[Head(structures)], Tail(structures))
       ELSE [ok |-> FALSE, env |-> env]

\* the type with a meta variable for the bound variable
RECURSIVE inst_ty(_, _)
inst_ty(ty, mv) ==
  CASE ty.tag = "BoundVar" -> TyMetaVar(mv)
    [] ty.tag = "Fn" -> TyFn(inst_ty(ty.param, mv), inst_ty(ty.res, mv))
    [] OTHER -> ty

\* util::instantiate: a fresh meta variable for the bound variable of the scheme
instantiate(s, ty_scheme) ==
  IF ty_scheme.vars = 0 THEN [st |-> s, ty |-> ty_scheme.ty]
  ELSE [st |-> any(s).st, ty |-> inst_ty(ty_scheme.ty, s.next_mv)]

\* unify::unify: a mismatch is recorded in the state, an unsolved meta
\* variable is solved
pt_unify(s, want, got) ==
  LET a == apply(s.subst, want)
      b == apply(s.subst, got)
  IN  IF a.tag = "MetaVar"
      THEN IF a = b THEN s ELSE [s EXCEPT !.subst[a.arg] = b]
      ELSE IF b.tag = "MetaVar" THEN [s EXCEPT !.subst[b.arg] = a]
           ELSE IF unify_tys_ok(a, b) THEN s ELSE pt_err(s, "MismatchedTypes")

\* the insert of util::record: a label that has a row already is an error
record_insert(s, ty_rows, lab, ty) ==
  [st      |-> IF lab \in DOMAIN ty_rows THEN pt_err(s, "DuplicateLabel") ELSE s,
   ty_rows |-> MapInsert(ty_rows, lab, ty)]

RECURSIVE ty_get(_, _, _)
RECURSIVE ty_get_rows(_, _, _, _, _)
RECURSIVE ty_get_args(_, _, _, _)

\* hir::Ty::Record: record(st, rows, |st, _, ty| get(st, cx, ars, ty)) (ty.rs:10)
ty_get_rows(s, cx, rows, i, ty_rows) ==
  IF i > Len(rows) THEN PtRet(s, PmAny, TyRecord(ty_rows))
  ELSE LET r == ty_get(s, cx, rows[i].ty)
       IN  IF r.panic THEN r
           ELSE LET ins == record_insert(r.st, ty_rows, rows[i].lab, r.ty)
                IN  ty_get_rows(ins.st, cx, rows, i + 1, ins.ty_rows)

\* args.iter().map(|&ty| get(st, cx, ars, ty)).collect() (ty.rs:26); the type
\* keeps the symbol only
ty_get_args(s, cx, args, sym) ==
  IF args = << >> THEN PtRet(s, PmAny, TyCon(sym))
  ELSE LET r == ty_get(s, cx, Head(args))
       IN  IF r.panic THEN r ELSE ty_get_args(r.st, cx, Tail(args), sym)

\* ty::get (ty.rs:6-34)
ty_get(s, cx, ty) ==
  CASE ty.tag = "None" -> PtRet(s, PmAny, TyNone)
    [] ty.tag = "Var" -> PtPanic(s)
    [] ty.tag = "Record" -> ty_get_rows(s, cx, ty.rows, 1, EmptyMap)
    [] ty.tag = "Con" ->
         LET e == get_env(cx.env, ty.path.structures)
         IN  IF ~e.ok THEN PtRet(pt_err(s, "Undefined"), PmAny, TyNone)
             ELSE IF ty.path.last \notin DOMAIN e.env.ty_env
                  THEN PtRet(pt_err(s, "Undefined"), PmAny, TyNone)
                  ELSE ty_get_args(s, cx, ty.args, e.env.ty_env[ty.path.last])
    [] ty.tag = "Fn" ->
         LET param == ty_get(s, cx, ty.param)
         IN  IF param.panic THEN param
             ELSE LET res == ty_get(param.st, cx, ty.res)
                  IN  IF res.panic THEN res ELSE PtRet(res.st, PmAny, TyFn(param.ty, res.ty))

\* a constructor pattern that does not ask for the argument of a function scheme
pat_con_lenient(s, ty, name, has_arg, arg) ==
  CASE ty.tag = "Con" -> PtRet(s, PmVariant(ty.arg, name, << >>), ty)
    [] ty.tag = "Fn" ->
         IF ty.res.tag # "Con" THEN PtPanic(s)
         ELSE IF ~has_arg THEN PtRet(s, PmVariant(ty.res.arg, name, << PmAny >>), ty.res)
              ELSE LET u == pt_unify(s, ty.param, arg.ty)
                   IN  PtRet(u, PmVariant(ty.res.arg, name, << arg.pat >>), apply(u.subst, ty.res))
    [] OTHER -> PtPanic(s)

\* hir::Pat::Con after the look-up: the arity of the constructor against the
\* argument, and the Variant pattern (pat.rs:58-86); arg is the result of get
\* on the argument when there is one (has_arg)
pat_con(s, ty, name, has_arg, arg) ==
  CASE ty.tag = "Con" ->
         PtRet(IF has_arg THEN pt_err(s, "PatMustNotHaveArg") ELSE s,
               PmVariant(ty.arg, name, << >>), ty)
    [] ty.tag = "Fn" ->
         IF ty.res.tag # "Con" THEN PtPanic(s)
         ELSE IF ~has_arg
              THEN PtRet(pt_err(s, "PatMustHaveArg"), PmVariant(ty.res.arg, name, << PmAny >>),
                         ty.res)
              ELSE LET u == pt_unify(s, ty.param, arg.ty)
                   IN  PtRet(u, PmVariant(ty.res.arg, name, << arg.pat >>), apply(u.subst, ty.res))
    [] OTHER -> PtPanic(s)

\* let is_var = arg.is_none() && path.structures().is_empty()
\*   && !cx.env.val_env.contains_key(path.last()) (pat.rs:33-34)
is_var(cx, path, arg) ==
  arg.tag = "NoArg" /\ path.structures = << >> /\ path.last \notin DOMAIN cx.env.val_env

RECURSIVE pat_get(_, _, _)
RECURSIVE pat_get_rows(_, _, _, _, _, _, _)

\* hir::Pat::Record without allows_other (pat.rs:95-103)
pat_get_rows(s, cx, rows, i, labs, pats, ty_rows) ==
  IF i > Len(rows)
  THEN PtRet(s, PmPat(PmCon("Record", 0, "", labs), pats), TyRecord(ty_rows))
  ELSE LET r == pat_get(s, cx, rows[i].pat)
       IN  IF r.panic THEN r
           ELSE LET ins == record_insert(r.st, ty_rows, rows[i].lab, r.ty)
                IN  pat_get_rows(ins.st, cx, rows, i + 1, Append(labs, rows[i].lab),
                                 Append(pats, r.pat), ins.ty_rows)

\* pat::get (pat.rs:9-117)
pat_get(s, cx, pat) ==
  CASE pat.tag = "None" -> PtRet(s, PmAny, TyNone)
    [] pat.tag = "Wild" -> any(s)
    [] pat.tag = "SCon" ->
         IF pat.scon = "Real"
         THEN PtRet(pt_err(s, "RealPat"), PmAny, get_scon(pat.scon))
         ELSE PtRet(s, PmPat(PmCon(pat.scon, 0, "", << >>), << >>), get_scon(pat.scon))
    [] pat.tag = "Con" ->
         IF is_var(cx, pat.path, pat.arg) THEN any(s)
         ELSE LET has_arg == pat.arg.tag # "NoArg"
                  arg     == IF has_arg THEN pat_get(s, cx, pat.arg) ELSE PtRet(s, PmAny, TyNone)
                  e       == get_env(cx.env, pat.path.structures)
              IN  IF arg.panic THEN arg
                  ELSE IF ~e.ok THEN any(pt_err(arg.st, "Undefined"))
                  ELSE IF pat.path.last \notin DOMAIN e.env.val_env
                  THEN any(pt_err(arg.st, "Undefined"))
                  ELSE LET val_info == e.env.val_env[pat.path.last]
                           s2 == IF val_info.id_status = "Val"
                                 THEN pt_err(arg.st, "PatValIdStatus")
                                 ELSE arg.st
                           inst == instantiate(s2, val_info.ty_scheme)
                       IN  pat_con(inst.st, inst.ty, pat.path.last, has_arg, arg)
    [] pat.tag = "Record" ->
         IF pat.allows_other THEN PtPanic(s)
         ELSE pat_get_rows(s, cx, pat.rows, 1, << >>, << >>, EmptyMap)
    [] pat.tag = "Typed" ->
         LET got == pat_get(s, cx, pat.pat)
         IN  IF got.panic THEN got
             ELSE LET want == ty_get(got.st, cx, pat.ty)
                  IN  IF want.panic THEN want
                      ELSE LET u == pt_unify(want.st, want.ty, got.ty)
                           IN  PtRet(u, got.pat, apply(u.subst, want.ty))
    [] pat.tag = "As" -> pat_get(s, cx, pat.pat)

\* the context of the call: the datatype t with the constructors A : t and
\* B : int -> t, the constructor ref of the basis (types.rs:127-150), the
\* exception E, the values x : int, f : int -> int and r : unit, and the
\* structure S with t and its constructors
PtCx ==
  LET ctors == MapInsert(MapInsert(EmptyMap,
                 "A", ValInfo(TyScheme(0, TyCon(SymOuterT)), "Con")),
                 "B", ValInfo(TyScheme(0, TyFn(TyCon(SymINT), TyCon(SymOuterT))), "Con"))
      vals  == MapInsert(MapInsert(MapInsert(MapInsert(MapInsert(ctors,
                 "ref", ValInfo(TyScheme(1, TyFn(TyBoundVar, TyCon(SymREF))), "Con")),
                 "E", ValInfo(TyScheme(0, TyCon(SymEXN)), "Exn")),
                 "x", ValInfo(TyScheme(0, TyCon(SymINT)), "Val")),
                 "f", ValInfo(TyScheme(0, TyFn(TyCon(SymINT), TyCon(SymINT))), "Val")),
                 "r", ValInfo(TyScheme(0, TyRecord(EmptyMap)), "Val"))
      tys   == MapInsert(MapInsert(EmptyMap, "int", SymINT), "t", SymOuterT)
      S     == PtEnv(EmptyMap, MapInsert(EmptyMap, "t", SymOuterT), ctors)
  IN  [env |-> PtEnv(MapInsert(EmptyMap, "S", S), tys, vals)]

\* neither checker called
PtIdle == [kind |-> "", input |-> HPatNone, called |-> FALSE, result |-> PtRet(PtStNew, PmAny, TyNone)]

(***************************************************************************)
(* The end of the entry point (sml-statics/src/st.rs, statics/src/lib.rs). *)
(***************************************************************************)
\* the meta variables of a type
RECURSIVE meta_vars_of(_)
meta_vars_of(ty) ==
  CASE ty.tag = "MetaVar" -> {ty.arg}
    [] ty.tag = "Fn" -> meta_vars_of(ty.param) \cup meta_vars_of(ty.res)
    [] ty.tag = "Record" -> UNION { meta_vars_of(ty.rows[lab]) : lab \in DOMAIN ty.rows }
    [] OTHER -> {}

\* unify solving the meta variable: the type is resolved first, and the
\* occurs check refuses a type that holds the variable
solve_ok(subst, mv, ty) ==
  /\ subst[mv] = Unsolved
  /\ apply(subst, ty) # TyMetaVar(mv)
  /\ mv \notin meta_vars_of(apply(subst, ty))

solve(subst, mv, ty) == [subst EXCEPT ![mv] = apply(subst, ty)]

\* a finish that leaves the types of the info as they were recorded
finish_info_skip(subst, info) == info

\* for ty in self.info.tys_mut() { apply(&self.subst, ty); } (st.rs:133-135)
finish_info(subst, info) == [i \in DOMAIN info |-> apply(subst, info[i])]

\* for ty in info.values_mut() { util::apply(&subst, ty); } (lib.rs:46-48)
get_apply(subst, info) == [i \in DOMAIN info |-> apply(subst, info[i])]

\* the entry point with nothing checked yet: no meta variable solved, no
\* type recorded
LgNew ==
  [pc |-> "checking", subst |-> [mv \in 0..(MaxLgMetaVars - 1) |-> Unsolved], info |-> << >>,
   recorded |-> << >>, finished |-> << >>]

\* the entry point not running
LgIdle == [LgNew EXCEPT !.pc = "idle"]

(***************************************************************************)
(* The entry point on a persistent Statics value (statics/src/lib.rs).     *)
(***************************************************************************)
\* Statics { syms, errors, .. }
Statics(syms, errors) == [syms |-> syms, errors |-> errors]

\* std::mem::take(&mut statics.syms): the table moves into the new state and
\* Syms::default() is left in its place (lib.rs:39)
take_syms(statics) == [statics EXCEPT !.syms = Syms_default]

\* a fold that keeps the errors of the last call only
fold_errors_replace(statics_errors, errors) == errors

\* statics.errors.extend(errors) (lib.rs:45)
fold_errors(statics_errors, errors) == statics_errors \o errors

\* statics.syms = syms; statics.errors.extend(errors) (lib.rs:44-45)
fold_back(statics, syms, errors) ==
  Statics(syms, fold_errors(statics.errors, errors))

\* the Statics value before the first call, no call in progress; news and
\* finishes count the states created and finished
EpNew ==
  [pc |-> "returned", statics |-> Statics(Syms_default, << >>),
   before |-> Statics(Syms_default, << >>), st_syms |-> << >>, st_errors |-> << >>,
   new_errors |-> << >>, ops |-> 0, calls |-> 0, news |-> 0, finishes |-> 0]

\* no Statics value
EpIdle == [EpNew EXCEPT !.pc = "idle"]

(***************************************************************************)
(* The pre-seeded symbol table with its schemes (statics/src/types.rs).    *)
(***************************************************************************)
\* Ty::Con(args, sym) with its argument types
TyConArgs(args, sym) == [tag |-> "Con", arg |-> sym, args |-> args]

\* Ty::zero (types.rs:24-28)
Ty_zero(sym) == TyConArgs(<< >>, sym)

\* TyScheme::mono (types.rs:38-44); vars is the length of TyVars::inner
TyScheme_mono(ty) == TyScheme(0, ty)

\* let z = |s: Sym| TyScheme::mono(Ty::zero(s)) (types.rs:128)
seed_z(sym) == TyScheme_mono(Ty_zero(sym))

\* let one = |s: Sym| TyScheme { vars: [false], ty: Ty::Con(vec![], s) }
\* (types.rs:129-132)
seed_one(sym) == TyScheme(1, TyConArgs(<< >>, sym))

\* a constructor of a datatype: its name and its argument type, if any
Ctor(name, has_arg, arg) == [name |-> name, has_arg |-> has_arg, arg |-> arg]

\* the scheme of one constructor (types.rs:163-169)
ctor_scheme(ty_scheme, ctor) ==
  IF ~ctor.has_arg THEN ty_scheme
  ELSE TyScheme(ty_scheme.vars, TyFn(ctor.arg, ty_scheme.ty))

\* fn datatype (types.rs:155-182): the value environment maps every
\* constructor to its scheme, with IdStatus::Con
datatype(name, ty_scheme, ctors) ==
  [name      |-> name,
   ty_scheme |-> ty_scheme,
   val_env   |-> [n \in { ctors[i].name : i \in DOMAIN ctors } |->
                   ValInfo(ctor_scheme(ty_scheme,
                                       ctors[CHOOSE i \in DOMAIN ctors : ctors[i].name = n]),
                           "Con")]]

\* impl Default for Syms, with the schemes (types.rs:126-153)
Syms_default_schemes ==
  << datatype("bool", seed_z(SymBOOL),
              << Ctor("true", FALSE, TyNone), Ctor("false", FALSE, TyNone) >>),
     datatype("char", seed_z(SymCHAR), << >>),
     datatype("int", seed_z(SymINT), << >>),
     datatype("real", seed_z(SymREAL), << >>),
     datatype("string", seed_z(SymSTRING), << >>),
     datatype("word", seed_z(SymWORD), << >>),
     datatype("exn", seed_z(SymEXN), << >>),
     datatype("ref", seed_one(SymREF), << Ctor("ref", TRUE, TyBoundVar) >>),
     datatype("list", seed_one(SymLIST),
              << Ctor("nil", FALSE, TyNone), Ctor("::", TRUE, TyBoundVar) >>),
     datatype("order", seed_z(SymORDER),
              << Ctor("LESS", FALSE, TyNone), Ctor("EQUAL", FALSE, TyNone),
                 Ctor("GREATER", FALSE, TyNone) >>) >>

\* the indices of the bound variables of a type
RECURSIVE bound_vars_of(_)
bound_vars_of(ty) ==
  CASE ty.tag = "BoundVar" -> {ty.arg}
    [] ty.tag = "Fn" -> bound_vars_of(ty.param) \cup bound_vars_of(ty.res)
    [] ty.tag = "Con" -> UNION { bound_vars_of(ty.args[i]) : i \in DOMAIN ty.args }
    [] OTHER -> {}

\* Syms::default()
SdNew == [store |-> Syms_default_schemes]

\* no table
SdIdle == [store |-> << >>]

(***************************************************************************)
(* Nested block comments (block-comment/src/lib.rs).                       *)
(***************************************************************************)
\* bs.get(i): the byte at the 0-based index i, "" for None
bs_get(bs, i) == IF i < Len(bs) THEN bs[i + 1] ELSE ""

\* an iteration that does not count an inner `(*`
bc_iter_flat(bs, idx, level) ==
  LET b0 == bs_get(bs, idx)
      b1 == bs_get(bs, idx + 1)
  IN  CASE b0 = "*" /\ b1 = ")" ->
             [idx |-> idx + 2, level |-> level - 1,
              result |-> IF level - 1 = 0 THEN "Consumed" ELSE ""]
        [] b0 # "" /\ b1 # "" /\ ~(b0 = "*" /\ b1 = ")") ->
             [idx |-> idx + 1, level |-> level, result |-> ""]
        [] b1 = "" -> [idx |-> idx, level |-> level, result |-> "Open"]
        [] OTHER -> [idx |-> idx, level |-> level, result |-> "Unreachable"]

\* one iteration of the loop (lib.rs:38-53): the index and the level after
\* it, and the result if it returns
bc_iter(bs, idx, level) ==
  LET b0 == bs_get(bs, idx)
      b1 == bs_get(bs, idx + 1)
  IN  CASE b0 = "(" /\ b1 = "*" -> [idx |-> idx + 2, level |-> level + 1, result |-> ""]
        [] b0 = "*" /\ b1 = ")" ->
             [idx |-> idx + 2, level |-> level - 1,
              result |-> IF level - 1 = 0 THEN "Consumed" ELSE ""]
        [] b0 # "" /\ b1 # "" /\ ~(b0 = "(" /\ b1 = "*") /\ ~(b0 = "*" /\ b1 = ")") ->
             [idx |-> idx + 1, level |-> level, result |-> ""]
        [] b1 = "" -> [idx |-> idx, level |-> level, result |-> "Open"]
        [] OTHER -> [idx |-> idx, level |-> level, result |-> "Unreachable"]

\* a call of get with its arguments: the bytes and the index, which holds a byte
BcNew(bs, idx) ==
  [pc |-> "start", bs |-> bs, idx0 |-> idx, idx |-> idx, level |-> 0, result |-> "",
   steps |-> 0]

\* no call
BcIdle == [BcNew(<< >>, 0) EXCEPT !.pc = "idle"]

(***************************************************************************)
(* The ML Basis lexer (mlb-syntax/src/lex.rs).                             *)
(***************************************************************************)
\* the loop of block_comment::get from an index and a level on
RECURSIVE block_comment_loop(_, _, _)
block_comment_loop(bs, idx, level) ==
  LET it == bc_iter(bs, idx, level)
  IN  IF it.result = "" THEN block_comment_loop(bs, it.idx, it.level) ELSE it

\* block_comment::get as one call: the index after it and the result
block_comment_get(bs, idx) ==
  IF bs_get(bs, idx) = "(" /\ bs_get(bs, idx + 1) = "*"
  THEN block_comment_loop(bs, idx + 2, 1)
  ELSE IF bs_get(bs, idx) = "*" /\ bs_get(bs, idx + 1) = ")"
       THEN [idx |-> idx + 2, level |-> 0, result |-> "Close"]
       ELSE [idx |-> idx, level |-> 0, result |-> "None"]

\* lex_util::is_whitespace
is_whitespace(b) == b = " "

\* the bytes of a name or a path (lex.rs:55)
is_word_byte(b) == b \in {"a", "(", ")"}

\* lex_util::advance_while with the test given as the set of bytes it accepts
RECURSIVE advance_while(_, _, _)
advance_while(idx, bs, accepted) ==
  IF idx < Len(bs) /\ bs[idx + 1] \in accepted THEN advance_while(idx + 1, bs, accepted)
  ELSE idx

\* the result of token: Some(token), None, an error, or a panic
LxTok(kind, idx) == [kind |-> kind, idx |-> idx]

\* fn token (lex.rs:22-92); the slice bs[start..idx] of a string literal
\* panics when idx is past the length
token(idx, bs, bytes) ==
  LET b  == bs_get(bs, idx)
      bc_ == block_comment_get(bs, idx)
  IN  IF bc_.result = "Consumed" THEN LxTok("None", bc_.idx)
      ELSE IF bc_.result # "None" THEN LxTok("Err", bc_.idx)
      ELSE IF is_whitespace(b)
           THEN LxTok("None", advance_while(idx + 1, bs, { x \in bytes : is_whitespace(x) }))
      ELSE IF b \in {";", "="} THEN LxTok("Some", idx + 1)
      ELSE IF b = "\""
           THEN LET e == advance_while(idx + 1, bs, bytes \ {"\""}) + 1
                IN  IF e > Len(bs) THEN LxTok("Panic", e) ELSE LxTok("Some", e)
      ELSE LET e == advance_while(idx, bs, { x \in bytes : is_word_byte(x) })
           IN  IF e = idx THEN LxTok("Err", idx) ELSE LxTok("Some", e)

\* a call of get on the bytes of a string
LxNew(bs) == [pc |-> "loop", bs |-> bs, idx |-> 0, tokens |-> << >>, old |-> 0]

\* no call
LxIdle == [LxNew(<< >>) EXCEPT !.pc = "idle"]

(***************************************************************************)
(* The work-list of get_input (analysis/src/input.rs).                     *)
(***************************************************************************)
\* the elements of a set of numbers as a sequence in ascending order: the
\* order in which a group file lists its dependencies
RECURSIVE SeqOfSet(_)
SeqOfSet(S) ==
  IF S = {} THEN << >>
  ELSE LET m == CHOOSE x \in S : \A y \in S : x <= y
       IN  << m >> \o SeqOfSet(S \ {m})

\* stack.pop(), then stack.push for every path of cm.cm (input.rs:182, 220-227)
stack_after(stack, cm_cm) == SubSeq(stack, 1, Len(stack) - 1) \o cm_cm

\* let mut stack = vec![(.., root_group_id)] (input.rs:181); cm gives the
\* groups every group file lists, the root group is 1
\* turns is the number of iterations of the loop modulo 2, so that an
\* iteration which leaves the work-list as it was is a step of its own
GiNew(cm) == [pc |-> "running", cm |-> cm, stack |-> << 1 >>, groups |-> {}, turns |-> 0]

\* no call
GiIdle == [pc |-> "idle", cm |-> << >>, stack |-> << >>, groups |-> {}, turns |-> 0]

(***************************************************************************)
(* The event parser (sml-parse/src/parser.rs).  Indices of events and of   *)
(* tokens count from 0 as in the source: events[i + 1] is the event at     *)
(* index i.  A token is "t", or "w" for trivia.                            *)
(***************************************************************************)
\* enum Event (parser.rs:366-371) and None of Option<Event>; parent is the
\* Option<usize> of Enter: << >> or << p >>
EvNone == [tag |-> "None", kind |-> "", parent |-> << >>]
EvEnter(kind, parent) == [tag |-> "Enter", kind |-> kind, parent |-> parent]
EvToken == [tag |-> "Token", kind |-> "", parent |-> << >>]
EvExit == [tag |-> "Exit", kind |-> "", parent |-> << >>]
EvError == [tag |-> "Error", kind |-> "", parent |-> << >>]

\* tok.kind.is_trivia()
is_trivia(tok) == tok = "w"

\* Parser::peek (parser.rs:139-148): the token index after the trivia
RECURSIVE peek(_, _)
peek(tokens, tok_idx) ==
  IF tok_idx < Len(tokens) /\ is_trivia(tokens[tok_idx + 1])
  THEN peek(tokens, tok_idx + 1)
  ELSE tok_idx

\* what BuilderSink hands to the tree builder (parser.rs:533-550): at is the
\* index of the event a node comes from, or the index of the token
SinkEnter(kind, at) == [tag |-> "enter", kind |-> kind, at |-> at]
SinkToken(at) == [tag |-> "token", kind |-> "", at |-> at]
SinkExit == [tag |-> "exit", kind |-> "", at |-> 0]

\* the running state of finish: the token index, the level, the sink
Fin(tok_idx, levels, out, panic) ==
  [tok_idx |-> tok_idx, levels |-> levels, out |-> out, panic |-> panic]

\* Parser::eat_trivia (parser.rs:186-194)
RECURSIVE eat_trivia(_, _)
eat_trivia(tokens, f) ==
  IF f.tok_idx < Len(tokens) /\ is_trivia(tokens[f.tok_idx + 1])
  THEN eat_trivia(tokens, [f EXCEPT !.out = Append(f.out, SinkToken(f.tok_idx)),
                                    !.tok_idx = f.tok_idx + 1])
  ELSE f

\* the loop `while let Some(p) = parent` of finish (parser.rs:211-221): the
\* indices of the Enter events taken, the innermost first; -1 at the end of
\* the chain stands for unreachable!
\* a finish that never follows the parent of an Enter event
parent_chain_none(events, parent) == << >>

RECURSIVE parent_chain(_, _)
parent_chain(events, parent) ==
  IF parent = << >> THEN << >>
  ELSE LET ev == events[parent[1] + 1]
       IN  CASE ev.tag = "Enter" -> << parent[1] >> \o parent_chain(events, ev.parent)
             [] ev.tag = "None" -> << >>
             [] OTHER -> << 0 - 1 >>

\* the loop `for kind in kinds.drain(..).rev()` of finish (parser.rs:222-229);
\* chain holds the indices of the Enter events, the innermost first
RECURSIVE enter_kinds(_, _, _, _)
enter_kinds(tokens, events, chain, f) ==
  IF chain = << >> THEN f
  ELSE LET at == chain[Len(chain)]
           f1 == IF f.levels # 0 THEN eat_trivia(tokens, f) ELSE f
       IN  enter_kinds(tokens, events, SubSeq(chain, 1, Len(chain) - 1),
                       [f1 EXCEPT !.out = Append(f1.out, SinkEnter(events[at + 1].kind, at)),
                                  !.levels = f1.levels + 1])

\* the loop over the events of finish (parser.rs:202-246); taken is the set of
\* the indices of events that take() has emptied
RECURSIVE finish_events(_, _, _, _, _)
finish_events(tokens, events, taken, idx, f) ==
  IF f.panic THEN f
  ELSE IF idx = Len(events) THEN f
  ELSE LET ev == events[idx + 1]
       IN  IF ev.tag = "None" \/ idx \in taken
           THEN finish_events(tokens, events, taken, idx + 1, f)
           ELSE CASE ev.tag = "Enter" ->
                       LET parents == parent_chain(events, ev.parent)
                       IN  IF \E i \in DOMAIN parents : parents[i] < 0
                           THEN [f EXCEPT !.panic = TRUE]
                           ELSE finish_events(tokens, events,
                                  taken \cup { parents[i] : i \in DOMAIN parents }, idx + 1,
                                  enter_kinds(tokens, events, << idx >> \o parents, f))
                  [] ev.tag = "Exit" ->
                       IF f.levels = 0 THEN [f EXCEPT !.panic = TRUE]
                       ELSE LET f1 == [f EXCEPT !.out = Append(f.out, SinkExit),
                                                !.levels = f.levels - 1]
                            IN  finish_events(tokens, events, taken, idx + 1,
                                  IF f1.levels = 1 THEN eat_trivia(tokens, f1) ELSE f1)
                  [] ev.tag = "Token" ->
                       LET f1 == eat_trivia(tokens, f)
                       IN  IF f1.tok_idx >= Len(tokens) THEN [f EXCEPT !.panic = TRUE]
                           ELSE finish_events(tokens, events, taken, idx + 1,
                                  [f1 EXCEPT !.out = Append(f1.out, SinkToken(f1.tok_idx)),
                                             !.tok_idx = f1.tok_idx + 1])
                  [] OTHER -> finish_events(tokens, events, taken, idx + 1, f)

\* Parser::finish (parser.rs:197-250): self.tok_idx = 0, the loop, and
\* assert_eq!(levels, 0)
finish(tokens, events) ==
  LET f == finish_events(tokens, events, {}, 0, Fin(0, 0, << >>, FALSE))
  IN  IF f.levels # 0 THEN [f EXCEPT !.panic = TRUE] ELSE f

\* struct Save (parser.rs:421-425)
Save(tok_idx, events_len) == [tok_idx |-> tok_idx, events_len |-> events_len]

\* the events from index n on: events.iter().skip(n)
skip(events, n) == IF n >= Len(events) THEN << >> ELSE SubSeq(events, n + 1, Len(events))

\* events.truncate(n)
truncate(events, n) == IF n >= Len(events) THEN events ELSE SubSeq(events, 1, n)

\* ok_since that forgets to reset the token index
ok_since_keep_tok_idx(p, save) ==
  LET error_since == \E i \in DOMAIN skip(p.events, save.events_len) :
                       skip(p.events, save.events_len)[i].tag = "Error"
  IN  IF error_since
      THEN [p EXCEPT !.events = truncate(p.events, save.events_len), !.ret = "false"]
      ELSE [p EXCEPT !.ret = "true"]

\* Parser::ok_since (parser.rs:323-334)
ok_since(p, save) ==
  LET error_since == \E i \in DOMAIN skip(p.events, save.events_len) :
                       skip(p.events, save.events_len)[i].tag = "Error"
  IN  IF error_since
      THEN [p EXCEPT !.tok_idx = save.tok_idx,
                     !.events = truncate(p.events, save.events_len),
                     !.ret = "false"]
      ELSE [p EXCEPT !.ret = "true"]

\* Parser::new (parser.rs:60-67) with the markers of the caller: open are the
\* Entered markers, the last one the newest; save is the Save the caller
\* holds, << >> or << s >>.  at_save, modified and errors are history: the
\* token index, events and fixities when save was called, whether an event
\* from before the save was written since, whether error was called since.
Parser_new(tokens, fix_env) ==
  [pc |-> "parsing", tokens |-> tokens, tok_idx |-> 0, events |-> << >>,
   fix_env |-> fix_env, open |-> << >>, save |-> << >>, ret |-> "none",
   at_save |-> << >>, modified |-> FALSE, errors |-> FALSE,
   out |-> << >>]

\* no parser
PsIdle ==
  [pc |-> "idle", tokens |-> << >>, tok_idx |-> 0, events |-> << >>,
   fix_env |-> {}, open |-> << >>, save |-> << >>, ret |-> "none",
   at_save |-> << >>, modified |-> FALSE, errors |-> FALSE,
   out |-> << >>]

(***************************************************************************)
(* SpecSt.                                                                 *)
(***************************************************************************)
\* St::new; done says that finish has consumed the state, ret_errors is the
\* error list finish returned, ops counts the operations called so far
St_new ==
  [ subst      |-> SubstDefault,
    errors     |-> << >>,
    matches    |-> << >>,
    holes      |-> << >>,
    done       |-> FALSE,
    ret_errors |-> << >>,
    ops        |-> 0 ]

\* get_match not called
GmIdle ==
  [ errors |-> << >>, ck |-> CkErr, called |-> FALSE, errors_out |-> << >>, missing |-> << >> ]

InitSt ==
  /\ ps = PsIdle
  /\ gi = GiIdle
  /\ lx = LxIdle
  /\ bc = BcIdle
  /\ sd = SdIdle
  /\ ep = EpIdle
  /\ lg = LgIdle
  /\ pt = PtIdle
  /\ st = St_new
  /\ gm = GmIdle
  /\ sy = SyIdle
  /\ dk = DkIdle
  /\ ex = ExIdle
  /\ lt = LtIdle
  /\ vb = VbIdle
  /\ rc = RcIdle
  /\ sq = SqIdle

CanCall == ~st.done /\ st.ops < MaxOps

Err ==
  /\ CanCall
  /\ \E kind \in ErrorKinds :
       st' = [st EXCEPT !.errors = St_err(st.errors, NodeIdx(st.ops + 1), kind),
                        !.ops = st.ops + 1]
  /\ UNCHANGED notSt

InsertBind ==
  /\ CanCall
  /\ \E pat \in StPats, want \in WantTys :
       st' = [st EXCEPT !.matches = St_insert_bind(st.matches, pat, want, NodeIdx(st.ops + 1)),
                        !.ops = st.ops + 1]
  /\ UNCHANGED notSt

InsertHandle ==
  /\ CanCall
  /\ \E pats \in StPats, want \in WantTys :
       st' = [st EXCEPT !.matches = St_insert_handle(st.matches, pats, want, NodeIdx(st.ops + 1)),
                        !.ops = st.ops + 1]
  /\ UNCHANGED notSt

InsertCase ==
  /\ CanCall
  /\ \E pats \in StPats, want \in WantTys :
       st' = [st EXCEPT !.matches = St_insert_case(st.matches, pats, want, NodeIdx(st.ops + 1)),
                        !.ops = st.ops + 1]
  /\ UNCHANGED notSt

InsertHole ==
  /\ CanCall
  /\ \E mv \in MetaVars :
       st' = [st EXCEPT !.holes = St_insert_hole(st.holes, mv, NodeIdx(st.ops + 1)),
                        !.ops = st.ops + 1]
  /\ UNCHANGED notSt

\* a unification through St::subst() that solves one meta variable
Solve ==
  /\ CanCall
  /\ \E mv \in MetaVars :
       /\ st.subst[mv] = Unsolved
       /\ st' = [st EXCEPT !.subst[mv] = TyCon(SymBOOL), !.ops = st.ops + 1]
  /\ UNCHANGED notSt

Finish ==
  /\ ~st.done
  /\ st' = [st EXCEPT !.done = TRUE,
                      !.ret_errors = St_finish(st.subst, st.errors, st.holes, st.matches)]
  /\ UNCHANGED notSt

NextSt ==
  \/ Err
  \/ InsertBind
  \/ InsertHandle
  \/ InsertCase
  \/ InsertHole
  \/ Solve
  \/ Finish

SpecSt == InitSt /\ [][NextSt]_vars

(***************************************************************************)
(* SpecGetMatch: get_match on every answer of the checker.                 *)
(***************************************************************************)
PatIdxOpts == { NoPatIdx } \cup { SomePatIdx(n) : n \in 1..MaxPatIdx }

CkAnswers ==
  { CkErr } \cup
  { CkOk(u, m) : u \in SeqsUpTo(PatIdxOpts, MaxUnreach), m \in { << >>, << "_" >> } }

\* the arguments of one call: the caller's error list and the checker's answer
GmInputs ==
  { [GmIdle EXCEPT !.errors = e, !.ck = c] :
      e \in { << >>, St_err(<< >>, NodeIdx(1), "Undefined") }, c \in CkAnswers }

InitGetMatch ==
  /\ ps = PsIdle
  /\ gi = GiIdle
  /\ lx = LxIdle
  /\ bc = BcIdle
  /\ sd = SdIdle
  /\ ep = EpIdle
  /\ lg = LgIdle
  /\ pt = PtIdle
  /\ st = St_new
  /\ gm \in GmInputs
  /\ sy = SyIdle
  /\ dk = DkIdle
  /\ ex = ExIdle
  /\ lt = LtIdle
  /\ vb = VbIdle
  /\ rc = RcIdle
  /\ sq = SqIdle

GetMatch ==
  /\ ~gm.called
  /\ LET got == get_match(gm.errors, gm.ck)
     IN  gm' = [gm EXCEPT !.called = TRUE, !.errors_out = got.errors, !.missing = got.missing]
  /\ UNCHANGED notGm

NextGetMatch == GetMatch

SpecGetMatch == InitGetMatch /\ [][NextGetMatch]_vars

(***************************************************************************)
(* SpecDec: ck on a sequence of declarations (dec.rs:214-448).             *)
(***************************************************************************)
TyCons == {"a", "b"}

\* the type a constructor takes: none, or a type constructor by name
ConArgTys == {NoTy, "a", "b", "int"}

Vids == {"A", "B", "true"}

\* the ty_con of the dat_binds of one datatype declaration
GroupNames == { ns \in SeqsUpTo(TyCons, MaxBinds) : ns # << >> }

\* the locals of Dec::Datatype and of a dat_bind, out of scope
DkNoLocals(d) ==
  [d EXCEPT !.cx = Cx0, !.ty_env = EmptyMap, !.val_env = EmptyMap, !.names = << >>, !.j = 0,
            !.sym = 0, !.bind_val_env = EmptyMap, !.cons = << >>]

\* ck returns early: an Err propagated by `?` through Dec::Seq, or a failed assert!
\* (the locals keep the values they had at that point)
DkReturn(d, result) == [d EXCEPT !.pc = "done", !.result = result]

\* Dec::Seq, one iteration on an infix, infixr or nonfix declaration (dec.rs:445)
SeqFixity ==
  /\ dk.pc = "seq"
  /\ dk.ndecs < MaxDecs
  /\ dk' = [dk EXCEPT !.seq_cx = Cx_o_plus(dk.seq_cx, dk.seq_ret),
                      !.seq_ret = seq_accumulate(dk.seq_ret, EnvDefault),
                      !.envs = Append(dk.envs, EnvDefault),
                      !.ndecs = dk.ndecs + 1]
  /\ UNCHANGED notDk

\* Dec::Seq, one iteration on a declaration the checker rejects (dec.rs:418-434)
SeqUnsupported ==
  /\ dk.pc = "seq"
  /\ dk.ndecs < MaxDecs
  /\ dk' = DkReturn([dk EXCEPT !.seq_cx = Cx_o_plus(dk.seq_cx, dk.seq_ret)],
                    ErrResult("Todo", ""))
  /\ UNCHANGED notDk

\* Dec::Seq, an iteration enters ck on a Dec::Datatype (dec.rs:337-344)
DatatypeBegin ==
  /\ dk.pc = "seq"
  /\ dk.ndecs < MaxDecs
  /\ \E names \in GroupNames, withtype \in BOOLEAN :
       LET cx == Cx_o_plus(dk.seq_cx, dk.seq_ret)
           d  == [dk EXCEPT !.seq_cx = cx]
       IN  IF withtype
           THEN dk' = DkReturn(d, ErrResult("Todo", ""))
           ELSE dk' = [d EXCEPT !.pc = "dat", !.cx = cx, !.ty_env = EmptyMap,
                                !.val_env = EmptyMap, !.names = names, !.j = 0]
  /\ UNCHANGED notDk

\* one dat_bind up to its constructors (dec.rs:345-377)
DatBindBegin ==
  /\ dk.pc = "dat"
  /\ dk.j < Len(dk.names)
  /\ \E ty_vars \in BOOLEAN :
       LET ty_con == dk.names[dk.j + 1]
           new    == new_sym(dk.syms, ty_con)
           sym    == new.sym
           d      == [dk EXCEPT !.syms = new.store, !.minted = Append(dk.minted, sym)]
       IN  IF ty_vars
           THEN dk' = DkReturn(dk, ErrResult("Todo", ""))
           ELSE IF ~env_ins_ok(dk.cx.env.ty_env, ty_con)
           THEN dk' = DkReturn(d, ErrResult("Redefined", ty_con))
           ELSE IF ty_con \in DOMAIN dk.ty_env
           THEN dk' = DkReturn(d, Panic("ty_env.insert(..).is_none()"))
           ELSE IF sym \in DOMAIN dk.datatypes
           THEN dk' = DkReturn(d, Panic("datatypes.insert(..).is_none()"))
           ELSE dk' = [d EXCEPT
                  !.pc = "con",
                  !.j = dk.j + 1,
                  !.sym = sym,
                  !.cx = Cx(dk.cx.ty_names \cup {ty_con},
                            Env(MapInsert(dk.cx.env.ty_env, ty_con, sym), dk.cx.env.val_env)),
                  !.ty_env = MapInsert(dk.ty_env, ty_con, sym),
                  !.datatypes = MapInsert(dk.datatypes, sym, placeholder_info(sym)),
                  !.bind_val_env = EmptyMap,
                  !.cons = << >>]
  /\ UNCHANGED notDk

\* one con_bind (dec.rs:378-398)
ConBind ==
  /\ dk.pc = "con"
  /\ Len(dk.cons) < MaxCons
  /\ \E vid \in Vids, of \in ConArgTys :
       LET ty == IF of = NoTy THEN CtorTy(-1, dk.sym) ELSE CtorTy(ty_ck(dk.cx, of), dk.sym)
       IN  IF ~ck_binding_ok(vid)
           THEN dk' = DkReturn(dk, ErrResult("ForbiddenBinding", vid))
           ELSE IF of # NoTy /\ ~ty_ck_ok(dk.cx, of)
           THEN dk' = DkReturn(dk, ErrResult("Undefined", of))
           ELSE IF ~env_ins_ok(dk.val_env, vid)
           THEN dk' = DkReturn(dk, ErrResult("Redefined", vid))
           ELSE IF vid \in DOMAIN dk.bind_val_env
           THEN dk' = DkReturn(dk, Panic("bind_val_env.insert(..).is_none()"))
           ELSE dk' = [dk EXCEPT
                  !.val_env = MapInsert(dk.val_env, vid, ty),
                  !.bind_val_env = MapInsert(dk.bind_val_env, vid, ty),
                  !.cons = Append(dk.cons, vid)]
  /\ UNCHANGED notDk

\* the end of one dat_bind (dec.rs:399-411)
DatBindEnd ==
  /\ dk.pc = "con"
  /\ dk.cons # << >>
  /\ IF dk.sym \notin DOMAIN dk.datatypes
     THEN dk' = DkReturn(dk, Panic("datatypes.insert(..).is_some()"))
     ELSE dk' = [dk EXCEPT
            !.pc = "dat",
            !.datatypes = MapInsert(dk.datatypes, dk.sym,
                                    final_info(dk.sym, dk.val_env, dk.bind_val_env)),
            !.sym = 0, !.bind_val_env = EmptyMap, !.cons = << >>]
  /\ UNCHANGED notDk

\* Dec::Datatype returns its Env (dec.rs:412-417) and Dec::Seq extends ret (dec.rs:441)
DatatypeEnd ==
  /\ dk.pc = "dat"
  /\ dk.j = Len(dk.names)
  /\ LET env == Env(dk.ty_env, dk.val_env)
     IN  dk' = [DkNoLocals(dk) EXCEPT
           !.pc = "seq",
           !.seq_ret = seq_accumulate(dk.seq_ret, env),
           !.envs = Append(dk.envs, env),
           !.ndecs = dk.ndecs + 1]
  /\ UNCHANGED notDk

\* Dec::Seq returns ret (dec.rs:443, 447)
SeqEnd ==
  /\ dk.pc = "seq"
  /\ dk' = [dk EXCEPT !.pc = "done", !.result = Ok(dk.seq_ret)]
  /\ UNCHANGED notDk

InitDec ==
  /\ ps = PsIdle
  /\ gi = GiIdle
  /\ lx = LxIdle
  /\ bc = BcIdle
  /\ sd = SdIdle
  /\ ep = EpIdle
  /\ lg = LgIdle
  /\ pt = PtIdle
  /\ st = St_new
  /\ gm = GmIdle
  /\ sy = SyIdle
  /\ dk = DkNew
  /\ ex = ExIdle
  /\ lt = LtIdle
  /\ vb = VbIdle
  /\ rc = RcIdle
  /\ sq = SqIdle

NextDec ==
  \/ SeqFixity
  \/ SeqUnsupported
  \/ DatatypeBegin
  \/ DatBindBegin
  \/ ConBind
  \/ DatBindEnd
  \/ DatatypeEnd
  \/ SeqEnd

SpecDec == InitDec /\ [][NextDec]_vars

(***************************************************************************)
(* SpecSyms: inserts into one symbol table.                                *)
(***************************************************************************)
TyInfoInputs ==
  { TyInfo(name, arity, ctors) :
      name \in {"t", "bool"}, arity \in {0, 1}, ctors \in {{}, {"A"}, {"A", "B"}} }

InitSyms ==
  /\ ps = PsIdle
  /\ gi = GiIdle
  /\ lx = LxIdle
  /\ bc = BcIdle
  /\ sd = SdIdle
  /\ ep = EpIdle
  /\ lg = LgIdle
  /\ pt = PtIdle
  /\ st = St_new
  /\ gm = GmIdle
  /\ sy = SyNew
  /\ dk = DkIdle
  /\ ex = ExIdle
  /\ lt = LtIdle
  /\ vb = VbIdle
  /\ rc = RcIdle
  /\ sq = SqIdle

SymsInsert ==
  /\ Len(sy.issued) < MaxInserts
  /\ \E ty_info \in TyInfoInputs :
       LET new == Syms_insert(sy.store, ty_info)
       IN  sy' = [store  |-> new.store,
                  issued |-> Append(sy.issued, [sym |-> new.sym, ty_info |-> ty_info])]
  /\ UNCHANGED notSy

NextSyms == SymsInsert

SpecSyms == InitSyms /\ [][NextSyms]_vars

(***************************************************************************)
(* SpecExp: ck_exp on one handle, case or fn expression.                   *)
(***************************************************************************)
ExPats == {"_", "E1", "E2", "true", "false"}

ExArms == { as \in SeqsUpTo([pat : ExPats, body : {"int"}], MaxArms) : as # << >> }

ExInputs ==
  { [ExIdle EXCEPT !.form = f, !.head = h, !.arms = as] :
      f \in {"Handle", "Case", "Fn"}, h \in {"int", "bool", "exn"}, as \in ExArms }

InitExp ==
  /\ ps = PsIdle
  /\ gi = GiIdle
  /\ lx = LxIdle
  /\ bc = BcIdle
  /\ sd = SdIdle
  /\ ep = EpIdle
  /\ lg = LgIdle
  /\ pt = PtIdle
  /\ st = St_new
  /\ gm = GmIdle
  /\ sy = SyIdle
  /\ dk = DkIdle
  /\ ex \in ExInputs
  /\ lt = LtIdle
  /\ vb = VbIdle
  /\ rc = RcIdle
  /\ sq = SqIdle

CkExp ==
  /\ ~ex.called
  /\ ex' = [ex EXCEPT !.called = TRUE, !.result = ck_exp(ex.form, ex.head, ex.arms)]
  /\ UNCHANGED notEx

NextExp == CkExp

SpecExp == InitExp /\ [][NextExp]_vars

(***************************************************************************)
(* SpecLet: ck_exp on one let expression (dec.rs:67-82).                   *)
(***************************************************************************)
\* the names of the datatypes the declaration of the let declares
LtLocalNames == { << >>, << "t" >>, << "u" >>, << "t", "u" >> }

\* the types without structure over a context: a meta variable, or a type
\* constructor of the type environment
LtAtoms(cx) ==
  { TyMetaVar(mv) : mv \in MetaVars } \cup { TyCon(cx.env.ty_env[n]) : n \in DOMAIN cx.env.ty_env }

\* the types a body expression can have
LtTys(cx) == LtAtoms(cx) \cup { TyFn(a, b) : a, b \in LtAtoms(cx) }

\* what a unification can solve a meta variable to: a type constructor, or
\* (the occurs check keeps the substitution acyclic) a later meta variable
LtSolutions(cx, mv) ==
  { TyCon(cx.env.ty_env[n]) : n \in DOMAIN cx.env.ty_env } \cup
  { TyMetaVar(other) : other \in { m \in MetaVars : m > mv } }

\* let env = ck(cx, st, dec)?; ... cx.o_plus(env) (dec.rs:68-71)
LetDec ==
  /\ lt.pc = "dec"
  /\ \E names \in LtLocalNames, fails \in BOOLEAN :
       LET new == let_dec_env(lt.store, names)
           env == Env(new.ty_env, EmptyMap)
       IN  IF fails
           THEN lt' = [lt EXCEPT !.pc = "done", !.result = LtErr("Todo")]
           ELSE IF \E i \in 1..Len(names) : ~env_ins_ok(lt.cx.env.ty_env, names[i])
           THEN lt' = [lt EXCEPT !.pc = "done", !.result = LtErr("Redefined")]
           ELSE lt' = [lt EXCEPT !.pc = "body",
                                 !.store = new.store,
                                 !.ty_names = let_ty_names(lt.cx, env),
                                 !.cx = Cx_o_plus(lt.cx, env)]
  /\ UNCHANGED notLt

\* one iteration of `for exp in exps`: ck_exp fails, or gives a type, and may
\* solve a meta variable on the way (dec.rs:73-75)
LetExp ==
  /\ lt.pc = "body"
  /\ lt.nexps < MaxLetExps
  /\ \/ lt' = [lt EXCEPT !.pc = "done", !.result = LtErr("Undefined")]
     \/ \E ty \in LtTys(lt.cx) :
          lt' = [lt EXCEPT !.last = LtOk(ty), !.nexps = lt.nexps + 1]
     \/ \E ty \in LtTys(lt.cx), mv \in MetaVars :
          /\ lt.subst[mv] = Unsolved
          /\ \E sol \in LtSolutions(lt.cx, mv) :
               lt' = [lt EXCEPT !.last = LtOk(ty), !.nexps = lt.nexps + 1, !.subst[mv] = sol]
  /\ UNCHANGED notLt

\* after the loop: the result type and the check of its type names (dec.rs:76-81)
LetEnd ==
  /\ lt.pc = "body"
  /\ lt.nexps >= 1
  /\ lt' = [lt EXCEPT !.pc = "done", !.checked = TRUE,
                      !.result = let_end(lt.ty_names, lt.store, lt.subst, lt.last.ty)]
  /\ UNCHANGED notLt

InitLet ==
  /\ ps = PsIdle
  /\ gi = GiIdle
  /\ lx = LxIdle
  /\ bc = BcIdle
  /\ sd = SdIdle
  /\ ep = EpIdle
  /\ lg = LgIdle
  /\ pt = PtIdle
  /\ st = St_new
  /\ gm = GmIdle
  /\ sy = SyIdle
  /\ dk = DkIdle
  /\ ex = ExIdle
  /\ lt \in { LtNew(outer) : outer \in LtOuter }
  /\ vb = VbIdle
  /\ rc = RcIdle
  /\ sq = SqIdle

NextLet ==
  \/ LetDec
  \/ LetExp
  \/ LetEnd

SpecLet == InitLet /\ [][NextLet]_vars

(***************************************************************************)
(* SpecBind: ck on one Dec::Val or Dec::Fun (dec.rs:216-317).              *)
(***************************************************************************)
VbNames == {"x", "true", "nil"}

\* the key orders of the ValEnv of a pattern that binds at most two names
VbKeys ==
  { << >> } \cup { << a >> : a \in VbNames } \cup
  ({ << a, b >> : a, b \in VbNames } \ { << a, a >> : a \in VbNames })

ValBindInputs ==
  { ValBind(TRUE, TRUE, keys, "ok") : keys \in { << >>, << "nil" >> } } \cup
  { ValBind(FALSE, FALSE, << >>, "ok") } \cup
  { ValBind(FALSE, TRUE, keys, rest) :
      keys \in VbKeys, rest \in {"ok", "exp_err", "unify_err", "non_exhaustive"} }

FvalBindInputs ==
  { FvalBind(vid, cases) :
      vid \in {"f", "true", "nil"},
      cases \in {"ok", "FunDecNameMismatch", "FunDecWrongNumPats", "Undefined", "TyMismatch",
                 "NonExhaustiveMatch"} }

VbValInput(ty_vars, val_binds) ==
  [VbIdle EXCEPT !.form = "Val", !.ty_vars = ty_vars, !.binds = val_binds]

VbFunInput(ty_vars, fval_binds) ==
  [VbIdle EXCEPT !.form = "Fun", !.ty_vars = ty_vars, !.binds = fval_binds]

InitBind ==
  /\ ps = PsIdle
  /\ gi = GiIdle
  /\ lx = LxIdle
  /\ bc = BcIdle
  /\ sd = SdIdle
  /\ ep = EpIdle
  /\ lg = LgIdle
  /\ pt = PtIdle
  /\ st = St_new
  /\ gm = GmIdle
  /\ sy = SyIdle
  /\ dk = DkIdle
  /\ ex = ExIdle
  /\ lt = LtIdle
  /\ \/ \E ty_vars \in BOOLEAN, val_binds \in SeqsUpTo(ValBindInputs, MaxValBinds) :
          val_binds # << >> /\ vb = VbValInput(ty_vars, val_binds)
     \/ \E ty_vars \in BOOLEAN, fval_binds \in SeqsUpTo(FvalBindInputs, MaxFvalBinds) :
          fval_binds # << >> /\ vb = VbFunInput(ty_vars, fval_binds)
  /\ rc = RcIdle
  /\ sq = SqIdle

CkVal ==
  /\ ~vb.called
  /\ vb.form = "Val"
  /\ vb' = [vb EXCEPT !.called = TRUE, !.result = ck_val(vb.ty_vars, vb.binds)]
  /\ UNCHANGED notVb

CkFun ==
  /\ ~vb.called
  /\ vb.form = "Fun"
  /\ vb' = [vb EXCEPT !.called = TRUE, !.result = ck_fun(vb.ty_vars, vb.binds)]
  /\ UNCHANGED notVb

NextBind ==
  \/ CkVal
  \/ CkFun

SpecBind == InitBind /\ [][NextBind]_vars

(***************************************************************************)
(* SpecRecord: ck_exp on one record or tuple expression (dec.rs:30-51).    *)
(***************************************************************************)
RcLabs == { LabName("a"), LabName("b"), LabNum(1) }

RcExps == { RcExpOk(TyCon(SymINT)), RcExpOk(TyCon(SymBOOL)), RcExpErr }

RcRows == { Row(lab, exp) : lab \in RcLabs, exp \in RcExps }

\* the permutations of 1..n
Perms(n) == { p \in [1..n -> 1..n] : \A i, j \in 1..n : p[i] = p[j] => i = j }

Permute(rows, p) == [i \in 1..Len(rows) |-> rows[p[i]]]

\* the components of a tuple written as the rows of a record
TupleRows(exps) == [i \in 1..Len(exps) |-> Row(tuple_lab(i - 1), exps[i])]

\* a record expression with a second writing of its rows
RcRecordInput(rows, p) ==
  [RcIdle EXCEPT !.form = "Record", !.rows = rows, !.other = Permute(rows, p)]

\* a tuple expression with a writing of its components as a record
RcTupleInput(exps, p) ==
  [RcIdle EXCEPT !.form = "Tuple",
                 !.rows = [i \in 1..Len(exps) |-> Row(NoLab, exps[i])],
                 !.other = Permute(TupleRows(exps), p)]

InitRecord ==
  /\ ps = PsIdle
  /\ gi = GiIdle
  /\ lx = LxIdle
  /\ bc = BcIdle
  /\ sd = SdIdle
  /\ ep = EpIdle
  /\ lg = LgIdle
  /\ pt = PtIdle
  /\ st = St_new
  /\ gm = GmIdle
  /\ sy = SyIdle
  /\ dk = DkIdle
  /\ ex = ExIdle
  /\ lt = LtIdle
  /\ vb = VbIdle
  /\ sq = SqIdle
  /\ \/ \E rows \in SeqsUpTo(RcRows, MaxRows) :
          \E p \in Perms(Len(rows)) : rc = RcRecordInput(rows, p)
     \/ \E exps \in SeqsUpTo(RcExps, MaxRows) :
          \E p \in Perms(Len(exps)) : rc = RcTupleInput(exps, p)

\* ck_exp on the record expression rows, and on other
CkRecord ==
  /\ ~rc.called
  /\ rc.form = "Record"
  /\ rc' = [rc EXCEPT !.called = TRUE,
                      !.result = ck_record(rc.rows),
                      !.other_result = ck_record(rc.other)]
  /\ UNCHANGED notRc

\* ck_exp on the tuple expression with the expressions of rows, and on the record other
CkTuple ==
  /\ ~rc.called
  /\ rc.form = "Tuple"
  /\ rc' = [rc EXCEPT !.called = TRUE,
                      !.result = ck_tuple([i \in 1..Len(rc.rows) |-> rc.rows[i].exp]),
                      !.other_result = ck_record(rc.other)]
  /\ UNCHANGED notRc

NextRecord ==
  \/ CkRecord
  \/ CkTuple

SpecRecord == InitRecord /\ [][NextRecord]_vars

(***************************************************************************)
(* SpecSeq: ck on a Dec::Seq of given declarations (dec.rs:435-444).       *)
(***************************************************************************)
SqDecs == {"infix", "datatype", "exception", "datatype_of_unknown", "datatype_true"}

InitSeq ==
  /\ ps = PsIdle
  /\ gi = GiIdle
  /\ lx = LxIdle
  /\ bc = BcIdle
  /\ sd = SdIdle
  /\ ep = EpIdle
  /\ lg = LgIdle
  /\ pt = PtIdle
  /\ st = St_new
  /\ gm = GmIdle
  /\ sy = SyIdle
  /\ dk = DkIdle
  /\ ex = ExIdle
  /\ lt = LtIdle
  /\ vb = VbIdle
  /\ rc = RcIdle
  /\ \E decs \in SeqsUpTo(SqDecs, MaxSeqDecs) : sq = SqNew(decs)

\* one iteration of `for dec in decs`: ret.extend(ck(&cx, st, dec)?) (dec.rs:439-442)
SeqDec ==
  /\ sq.pc = "seq"
  /\ sq.i < Len(sq.decs)
  /\ LET r == seq_dec_result(sq.decs[sq.i + 1])
     IN  IF r.tag = "Err"
         THEN sq' = [sq EXCEPT !.pc = "done", !.i = sq.i + 1, !.failed = sq.i + 1, !.result = r]
         ELSE sq' = [sq EXCEPT !.i = sq.i + 1]
  /\ UNCHANGED notSq

\* after the loop: Ok(ret) (dec.rs:443, 447)
SeqReturn ==
  /\ sq.pc = "seq"
  /\ sq.i = Len(sq.decs)
  /\ sq' = [sq EXCEPT !.pc = "done", !.result = Ok(EnvDefault)]
  /\ UNCHANGED notSq

NextSeq ==
  \/ SeqDec
  \/ SeqReturn

SpecSeq == InitSeq /\ [][NextSeq]_vars

(***************************************************************************)
(* SpecPat: pat::get and ty::get on one pattern or type of the IR.         *)
(***************************************************************************)
PtPaths ==
  { Path(<< >>, last) : last \in {"A", "B", "ref", "E", "x", "f", "r", "y"} } \cup
  { Path(<< "S" >>, "A"), Path(<< "S" >>, "z"), Path(<< "T" >>, "A") }

\* the patterns without sub-patterns
PtLeafPats ==
  { HPatNone, HPatWild, HPatSCon("Int"), HPatSCon("Real") } \cup
  { HPatCon(path, NoArg) : path \in PtPaths }

PtLabs == { LabName("a"), LabName("b") }

PtLeafTys ==
  { HTyNone, HTyVar, HTyCon(<< >>, Path(<< >>, "int")), HTyCon(<< >>, Path(<< "S" >>, "t")),
    HTyCon(<< >>, Path(<< >>, "u")), HTyCon(<< >>, Path(<< "T" >>, "t")) }

\* the types of the IR
PtTys ==
  PtLeafTys \cup
  { HTyCon(<< arg >>, Path(<< >>, "t")) : arg \in PtLeafTys } \cup
  { HTyFn(param, res) : param, res \in PtLeafTys } \cup
  { HTyRecord(rows) :
      rows \in SeqsUpTo([lab : PtLabs, ty : { HTyCon(<< >>, Path(<< >>, "int")), HTyVar }],
                        MaxPatRows) }

\* the patterns of the IR
PtPats ==
  PtLeafPats \cup
  { HPatCon(path, arg) : path \in PtPaths, arg \in PtLeafPats } \cup
  { HPatRecord(rows, allows_other) :
      rows \in SeqsUpTo([lab : PtLabs,
                         pat : { HPatWild, HPatCon(Path(<< >>, "B"), NoArg),
                                 HPatCon(Path(<< >>, "y"), NoArg) }], MaxPatRows),
      allows_other \in BOOLEAN } \cup
  { HPatTyped(pat, ty) : pat \in PtLeafPats, ty \in PtLeafTys } \cup
  { HPatAs("n", pat) : pat \in PtLeafPats }

InitPat ==
  /\ ps = PsIdle
  /\ gi = GiIdle
  /\ lx = LxIdle
  /\ bc = BcIdle
  /\ sd = SdIdle
  /\ ep = EpIdle
  /\ lg = LgIdle
  /\ st = St_new
  /\ gm = GmIdle
  /\ sy = SyIdle
  /\ dk = DkIdle
  /\ ex = ExIdle
  /\ lt = LtIdle
  /\ vb = VbIdle
  /\ rc = RcIdle
  /\ sq = SqIdle
  /\ \/ \E pat \in PtPats : pt = [PtIdle EXCEPT !.kind = "pat", !.input = pat]
     \/ \E ty \in PtTys : pt = [PtIdle EXCEPT !.kind = "ty", !.input = ty]

\* pat::get on the pattern, from a new state
PatGet ==
  /\ ~pt.called
  /\ pt.kind = "pat"
  /\ pt' = [pt EXCEPT !.called = TRUE, !.result = pat_get(PtStNew, PtCx, pt.input)]
  /\ UNCHANGED notPt

\* ty::get on the type, from a new state
TyGet ==
  /\ ~pt.called
  /\ pt.kind = "ty"
  /\ pt' = [pt EXCEPT !.called = TRUE, !.result = ty_get(PtStNew, PtCx, pt.input)]
  /\ UNCHANGED notPt

NextPat ==
  \/ PatGet
  \/ TyGet

SpecPat == InitPat /\ [][NextPat]_vars

(***************************************************************************)
(* SpecGet: the types recorded for the nodes, the substitution solved by   *)
(* unification, St::finish, and the loop of get after it.                  *)
(***************************************************************************)
LgMetaVars == 0..(MaxLgMetaVars - 1)

\* the types unification solves a meta variable with
LgSolveTys ==
  { TyMetaVar(mv) : mv \in LgMetaVars } \cup { TyCon(SymINT) } \cup
  { TyFn(TyMetaVar(mv), TyCon(SymINT)) : mv \in LgMetaVars } \cup
  { TyFn(TyCon(SymINT), TyMetaVar(mv)) : mv \in LgMetaVars }

\* the types recorded for a node
LgInfoTys ==
  { TyMetaVar(mv) : mv \in LgMetaVars } \cup
  { TyFn(TyMetaVar(0), TyMetaVar(1)), TyRecord(MapInsert(EmptyMap, LabName("a"), TyMetaVar(0))) }

InitGet ==
  /\ ps = PsIdle
  /\ gi = GiIdle
  /\ lx = LxIdle
  /\ bc = BcIdle
  /\ sd = SdIdle
  /\ ep = EpIdle
  /\ lg = LgNew
  /\ st = St_new
  /\ gm = GmIdle
  /\ sy = SyIdle
  /\ dk = DkIdle
  /\ ex = ExIdle
  /\ lt = LtIdle
  /\ vb = VbIdle
  /\ rc = RcIdle
  /\ sq = SqIdle
  /\ pt = PtIdle

\* a check records the type of a node
LgInsert ==
  /\ lg.pc = "checking"
  /\ Len(lg.info) < MaxInfoTys
  /\ \E ty \in LgInfoTys : lg' = [lg EXCEPT !.info = Append(lg.info, ty)]
  /\ UNCHANGED notLg

\* unification solves a meta variable
LgSolve ==
  /\ lg.pc = "checking"
  /\ \E mv \in LgMetaVars, ty \in LgSolveTys :
       /\ solve_ok(lg.subst, mv, ty)
       /\ lg' = [lg EXCEPT !.subst = solve(lg.subst, mv, ty)]
  /\ UNCHANGED notLg

\* let (syms, errors, subst, mut info) = st.finish() (lib.rs:43)
LgFinish ==
  /\ lg.pc = "checking"
  /\ lg' = [lg EXCEPT !.pc = "finished", !.recorded = lg.info,
                       !.info = finish_info(lg.subst, lg.info),
                       !.finished = finish_info(lg.subst, lg.info)]
  /\ UNCHANGED notLg

\* the loop of get over the types of the info, and its return (lib.rs:46-49)
LgApply ==
  /\ lg.pc = "finished"
  /\ lg' = [lg EXCEPT !.pc = "returned", !.info = get_apply(lg.subst, lg.info)]
  /\ UNCHANGED notLg

NextGet ==
  \/ LgInsert
  \/ LgSolve
  \/ LgFinish
  \/ LgApply

SpecGet == InitGet /\ [][NextGet]_vars

(***************************************************************************)
(* SpecCase: one Case or Handle obligation of type bool, then finish.      *)
(***************************************************************************)
BoolPats == {"true", "false", "_"}

\* the arms with the answer of the checker for them
BoolArms(arms) == [ck |-> check_family(BoolFamily, arms), arms |-> arms]

InitCase ==
  /\ ps = PsIdle
  /\ gi = GiIdle
  /\ lx = LxIdle
  /\ bc = BcIdle
  /\ sd = SdIdle
  /\ ep = EpIdle
  /\ st = St_new
  /\ gm = GmIdle
  /\ sy = SyIdle
  /\ dk = DkIdle
  /\ ex = ExIdle
  /\ lt = LtIdle
  /\ vb = VbIdle
  /\ rc = RcIdle
  /\ sq = SqIdle
  /\ pt = PtIdle
  /\ lg = LgIdle

BoolInsertCase ==
  /\ ~st.done
  /\ st.matches = << >>
  /\ \E arms \in SeqsUpTo(BoolPats, MaxBoolArms) :
       st' = [st EXCEPT !.matches = St_insert_case(st.matches, BoolArms(arms), TyCon(SymBOOL),
                                                   NodeIdx(1)),
                        !.ops = st.ops + 1]
  /\ UNCHANGED notSt

BoolInsertHandle ==
  /\ ~st.done
  /\ st.matches = << >>
  /\ \E arms \in SeqsUpTo(BoolPats, MaxBoolArms) :
       st' = [st EXCEPT !.matches = St_insert_handle(st.matches, BoolArms(arms), TyCon(SymBOOL),
                                                     NodeIdx(1)),
                        !.ops = st.ops + 1]
  /\ UNCHANGED notSt

BoolFinish ==
  /\ ~st.done
  /\ st' = [st EXCEPT !.done = TRUE,
                      !.ret_errors = St_finish(st.subst, st.errors, st.holes, st.matches)]
  /\ UNCHANGED notSt

NextCase ==
  \/ BoolInsertCase
  \/ BoolInsertHandle
  \/ BoolFinish

SpecCase == InitCase /\ [][NextCase]_vars

(***************************************************************************)
(* SpecEntry: calls of get on one persistent Statics value.                *)
(***************************************************************************)
EpErrorKinds == {"Undefined", "MismatchedTypes"}

InitEntry ==
  /\ ps = PsIdle
  /\ gi = GiIdle
  /\ lx = LxIdle
  /\ bc = BcIdle
  /\ sd = SdIdle
  /\ ep = EpNew
  /\ st = St_new
  /\ gm = GmIdle
  /\ sy = SyIdle
  /\ dk = DkIdle
  /\ ex = ExIdle
  /\ lt = LtIdle
  /\ vb = VbIdle
  /\ rc = RcIdle
  /\ sq = SqIdle
  /\ pt = PtIdle
  /\ lg = LgIdle

\* let mut st = st::St::new(mode, std::mem::take(&mut statics.syms)) (lib.rs:39)
EpBegin ==
  /\ ep.pc = "returned"
  /\ ep.calls < MaxCalls
  /\ ep' = [ep EXCEPT !.pc = "checking", !.before = ep.statics,
                      !.statics = take_syms(ep.statics),
                      !.st_syms = ep.statics.syms, !.st_errors = << >>, !.new_errors = << >>,
                      !.ops = 0, !.calls = ep.calls + 1, !.news = ep.news + 1]
  /\ UNCHANGED notEp

\* a check of top_dec::get records an error in the state of the call
EpErr ==
  /\ ep.pc = "checking"
  /\ ep.ops < MaxTopDecs
  /\ \E kind \in EpErrorKinds :
       ep' = [ep EXCEPT !.st_errors = St_err(ep.st_errors, Idx("exp", ep.calls * 10 + ep.ops), kind),
                        !.ops = ep.ops + 1]
  /\ UNCHANGED notEp

\* a datatype declaration checked by top_dec::get issues a symbol
EpInsertSym ==
  /\ ep.pc = "checking"
  /\ ep.ops < MaxTopDecs
  /\ \E name \in {"t", "u"} :
       ep' = [ep EXCEPT !.st_syms = Syms_insert(ep.st_syms, TyInfo(name, 0, {})).store,
                        !.ops = ep.ops + 1]
  /\ UNCHANGED notEp

\* st.finish(), the fold into statics and the return (lib.rs:43-49)
EpFinish ==
  /\ ep.pc = "checking"
  /\ LET errors == St_finish(SubstDefault, ep.st_errors, << >>, << >>)
     IN  ep' = [ep EXCEPT !.pc = "returned", !.finishes = ep.finishes + 1,
                          !.new_errors = errors,
                          !.statics = fold_back(ep.statics, ep.st_syms, errors)]
  /\ UNCHANGED notEp

NextEntry ==
  \/ EpBegin
  \/ EpErr
  \/ EpInsertSym
  \/ EpFinish

SpecEntry == InitEntry /\ [][NextEntry]_vars

(***************************************************************************)
(* SpecSeed: the pre-seeded table, and datatypes inserted into it.         *)
(***************************************************************************)
\* the constructors of an inserted datatype
SdCtors ==
  { << >>, << Ctor("A", FALSE, TyNone) >>, << Ctor("A", TRUE, TyBoundVar) >>,
    << Ctor("A", FALSE, TyNone), Ctor("B", TRUE, Ty_zero(SymINT)) >> }

InitSeed ==
  /\ ps = PsIdle
  /\ gi = GiIdle
  /\ lx = LxIdle
  /\ bc = BcIdle
  /\ sd = SdNew
  /\ ep = EpIdle
  /\ st = St_new
  /\ gm = GmIdle
  /\ sy = SyIdle
  /\ dk = DkIdle
  /\ ex = ExIdle
  /\ lt = LtIdle
  /\ vb = VbIdle
  /\ rc = RcIdle
  /\ sq = SqIdle
  /\ pt = PtIdle
  /\ lg = LgIdle

\* Syms::insert of a datatype (types.rs:188-192)
SdInsert ==
  /\ Len(sd.store) < Len(Syms_default_schemes) + MaxSeedInserts
  /\ \E name \in {"t", "u"}, poly \in BOOLEAN, ctors \in SdCtors :
       sd' = [sd EXCEPT !.store =
                Append(sd.store,
                       datatype(name,
                                IF poly THEN seed_one(Len(sd.store)) ELSE seed_z(Len(sd.store)),
                                ctors))]
  /\ UNCHANGED notSd

NextSeed == SdInsert

SpecSeed == InitSeed /\ [][NextSeed]_vars

(***************************************************************************)
(* SpecComment: block_comment::get on every byte string and index.         *)
(***************************************************************************)
\* the bytes of the delimiters; `(` not before `*`, `)` and `*` not before `)`
\* are the other bytes
BcBytes == {"(", "*", ")"}

InitComment ==
  /\ ps = PsIdle
  /\ gi = GiIdle
  /\ lx = LxIdle
  /\ \E bs \in SeqsUpTo(BcBytes, MaxBytes) : \E idx \in 0..(Len(bs) - 1) : bc = BcNew(bs, idx)
  /\ sd = SdIdle
  /\ ep = EpIdle
  /\ st = St_new
  /\ gm = GmIdle
  /\ sy = SyIdle
  /\ dk = DkIdle
  /\ ex = ExIdle
  /\ lt = LtIdle
  /\ vb = VbIdle
  /\ rc = RcIdle
  /\ sq = SqIdle
  /\ pt = PtIdle
  /\ lg = LgIdle

\* the tests before and after the loop (lib.rs:33-36, 56-61)
BcStart ==
  /\ bc.pc = "start"
  /\ LET b  == bs_get(bc.bs, bc.idx)
         b1 == bs_get(bc.bs, bc.idx + 1)
     IN  bc' = IF b = "(" /\ b1 = "*"
               THEN [bc EXCEPT !.pc = "loop", !.idx = bc.idx + 2, !.level = 1]
               ELSE IF b = "*" /\ b1 = ")"
                    THEN [bc EXCEPT !.pc = "done", !.idx = bc.idx + 2, !.result = "Close"]
                    ELSE [bc EXCEPT !.pc = "done", !.result = "None"]
  /\ UNCHANGED notBc

\* one iteration of the loop (lib.rs:37-54)
BcLoop ==
  /\ bc.pc = "loop"
  /\ LET it == bc_iter(bc.bs, bc.idx, bc.level)
     IN  bc' = [bc EXCEPT !.idx = it.idx, !.level = it.level, !.result = it.result,
                          !.steps = bc.steps + 1,
                          !.pc = IF it.result = "" THEN "loop" ELSE "done"]
  /\ UNCHANGED notBc

NextComment ==
  \/ BcStart
  \/ BcLoop

SpecComment == InitComment /\ [][NextComment]_vars

(***************************************************************************)
(* SpecLex: the ML Basis lexer on every string.                            *)
(***************************************************************************)
\* a quote, a blank, a punctuation byte, a letter, and the bytes of the
\* comment delimiters (`*` is a byte of no token)
LxBytes == {"\"", " ", ";", "a", "(", "*", ")"}

InitLex ==
  /\ ps = PsIdle
  /\ gi = GiIdle
  /\ \E bs \in SeqsUpTo(LxBytes, MaxLexBytes) : lx = LxNew(bs)
  /\ bc = BcIdle
  /\ sd = SdIdle
  /\ ep = EpIdle
  /\ st = St_new
  /\ gm = GmIdle
  /\ sy = SyIdle
  /\ dk = DkIdle
  /\ ex = ExIdle
  /\ lt = LtIdle
  /\ vb = VbIdle
  /\ rc = RcIdle
  /\ sq = SqIdle
  /\ pt = PtIdle
  /\ lg = LgIdle

\* one iteration of `while let Some(&b) = bs.get(idx)` (lex.rs:9-16)
LxStep ==
  /\ lx.pc = "loop"
  /\ lx.idx < Len(lx.bs)
  /\ LET t == token(lx.idx, lx.bs, LxBytes)
     IN  lx' = CASE t.kind = "Panic" -> [lx EXCEPT !.pc = "panic", !.old = lx.idx, !.idx = t.idx]
                 [] t.kind = "Err" -> [lx EXCEPT !.pc = "err", !.old = lx.idx, !.idx = t.idx]
                 [] t.kind = "Some" ->
                      [lx EXCEPT !.pc = IF lx.idx < t.idx THEN "loop" ELSE "panic",
                                 !.old = lx.idx, !.idx = t.idx,
                                 !.tokens = Append(lx.tokens, << lx.idx, t.idx >>)]
                 [] t.kind = "None" ->
                      [lx EXCEPT !.pc = IF lx.idx < t.idx THEN "loop" ELSE "panic",
                                 !.old = lx.idx, !.idx = t.idx]
  /\ UNCHANGED notLx

\* the end of the loop: Ok(tokens) (lex.rs:17)
LxReturn ==
  /\ lx.pc = "loop"
  /\ lx.idx >= Len(lx.bs)
  /\ lx' = [lx EXCEPT !.pc = "ok"]
  /\ UNCHANGED notLx

NextLex ==
  \/ LxStep
  \/ LxReturn

SpecLex == InitLex /\ [][NextLex]_vars

(***************************************************************************)
(* SpecInput: get_input on every file system of group files.               *)
(***************************************************************************)
GiGroups == 1..MaxGroups

InitInput ==
  /\ ps = PsIdle
  /\ \E deps \in [GiGroups -> SUBSET GiGroups] :
       gi = GiNew([g \in GiGroups |-> SeqOfSet(deps[g])])
  /\ lx = LxIdle
  /\ bc = BcIdle
  /\ sd = SdIdle
  /\ ep = EpIdle
  /\ st = St_new
  /\ gm = GmIdle
  /\ sy = SyIdle
  /\ dk = DkIdle
  /\ ex = ExIdle
  /\ lt = LtIdle
  /\ vb = VbIdle
  /\ rc = RcIdle
  /\ sq = SqIdle
  /\ pt = PtIdle
  /\ lg = LgIdle

\* one iteration of `while let Some(..) = stack.pop()` (input.rs:182-233);
\* a work-list longer than MaxStack ends the exploration
GiPop ==
  /\ gi.pc = "running"
  /\ gi.stack # << >>
  /\ LET group_path_id == gi.stack[Len(gi.stack)]
         stack == stack_after(gi.stack, gi.cm[group_path_id])
     IN  gi' = IF Len(stack) > MaxStack THEN [gi EXCEPT !.pc = "capped"]
               ELSE [gi EXCEPT !.stack = stack, !.groups = gi.groups \cup {group_path_id},
                               !.turns = (gi.turns + 1) % 2]
  /\ UNCHANGED notGi

\* the work-list is empty: Ok(ret) (input.rs:234)
GiReturn ==
  /\ gi.pc = "running"
  /\ gi.stack = << >>
  /\ gi' = [gi EXCEPT !.pc = "done"]
  /\ UNCHANGED notGi

NextInput ==
  \/ GiPop
  \/ GiReturn

\* the loop runs on as long as it can
SpecInput == InitInput /\ [][NextInput]_vars /\ WF_vars(NextInput)

(***************************************************************************)
(* SpecParse: the operations of the parser and finish.                     *)
(* SpecBacktrack: the operations of the parser between save and ok_since.  *)
(***************************************************************************)
PsTokens == UNION { [1..n -> {"t", "w"}] : n \in 0..MaxTokens }
PsKinds == {"Exp", "Dec"}
PsInfixes == { [name |-> "+", prec |-> 6, assoc |-> "Left"] }

\* whether the caller holds a Save from before the event at ev_idx was made
before_save(ev_idx) == ps.save # << >> /\ ev_idx < ps.save[1].events_len

InitParse ==
  /\ \E tokens \in PsTokens : ps = Parser_new(tokens, {})
  /\ gi = GiIdle
  /\ lx = LxIdle
  /\ bc = BcIdle
  /\ sd = SdIdle
  /\ ep = EpIdle
  /\ st = St_new
  /\ gm = GmIdle
  /\ sy = SyIdle
  /\ dk = DkIdle
  /\ ex = ExIdle
  /\ lt = LtIdle
  /\ vb = VbIdle
  /\ rc = RcIdle
  /\ sq = SqIdle
  /\ pt = PtIdle
  /\ lg = LgIdle

InitBacktrack ==
  /\ \E tokens \in PsTokens, fix_env \in {{}} \cup { {i} : i \in PsInfixes } :
       ps = Parser_new(tokens, fix_env)
  /\ gi = GiIdle
  /\ lx = LxIdle
  /\ bc = BcIdle
  /\ sd = SdIdle
  /\ ep = EpIdle
  /\ st = St_new
  /\ gm = GmIdle
  /\ sy = SyIdle
  /\ dk = DkIdle
  /\ ex = ExIdle
  /\ lt = LtIdle
  /\ vb = VbIdle
  /\ rc = RcIdle
  /\ sq = SqIdle
  /\ pt = PtIdle
  /\ lg = LgIdle

\* Parser::enter (parser.rs:88-95)
PsEnter ==
  /\ ps.pc = "parsing"
  /\ Len(ps.events) < MaxEvents
  /\ ps' = [ps EXCEPT !.events = Append(ps.events, EvNone),
                      !.open = Append(ps.open, Len(ps.events)),
                      !.ret = "none"]
  /\ UNCHANGED notPs

\* Parser::abandon (parser.rs:101-104) of the newest marker
PsAbandon ==
  /\ ps.pc = "parsing"
  /\ ps.open # << >>
  /\ ps' = [ps EXCEPT !.open = SubSeq(ps.open, 1, Len(ps.open) - 1),
                      !.ret = "none"]
  /\ UNCHANGED notPs

\* Parser::exit (parser.rs:107-114) of the newest marker
PsExit ==
  /\ ps.pc = "parsing"
  /\ ps.open # << >>
  /\ Len(ps.events) < MaxEvents
  /\ \E kind \in PsKinds :
       LET ev_idx == ps.open[Len(ps.open)]
       IN  ps' = [ps EXCEPT !.events = Append([ps.events EXCEPT ![ev_idx + 1] = EvEnter(kind, << >>)], EvExit),
                           !.open = SubSeq(ps.open, 1, Len(ps.open) - 1),
                           !.modified = ps.modified \/ before_save(ev_idx),
                           !.ret = "none"]
  /\ UNCHANGED notPs

\* Parser::precede (parser.rs:123-133) of a completed node; the assert fails
\* when the node has been preceded before
PsPrecede ==
  /\ ps.pc = "parsing"
  /\ Len(ps.events) < MaxEvents
  /\ \E ev_idx \in 0..(Len(ps.events) - 1) :
       /\ ps.events[ev_idx + 1].tag = "Enter"
       /\ ps' = IF ps.events[ev_idx + 1].parent # << >>
                THEN [ps EXCEPT !.pc = "panic", !.ret = "none"]
                ELSE [ps EXCEPT !.events = Append([ps.events EXCEPT ![ev_idx + 1].parent = << Len(ps.events) >>], EvNone),
                                !.open = Append(ps.open, Len(ps.events)),
                                !.modified = ps.modified \/ before_save(ev_idx),
                                !.ret = "none"]
  /\ UNCHANGED notPs

\* Parser::bump (parser.rs:174-179); expect fails when no token is left
PsBump ==
  /\ ps.pc = "parsing"
  /\ Len(ps.events) < MaxEvents
  /\ LET tok_idx == peek(ps.tokens, ps.tok_idx)
     IN  ps' = IF tok_idx >= Len(ps.tokens)
               THEN [ps EXCEPT !.pc = "panic", !.ret = "none"]
               ELSE [ps EXCEPT !.events = Append(ps.events, EvToken),
                               !.tok_idx = tok_idx + 1,
                               !.ret = "none"]
  /\ UNCHANGED notPs

\* Parser::error (parser.rs:182-184)
PsError ==
  /\ ps.pc = "parsing"
  /\ Len(ps.events) < MaxEvents
  /\ ps' = [ps EXCEPT !.events = Append(ps.events, EvError),
                      !.errors = ps.errors \/ ps.save # << >>,
                      !.ret = "none"]
  /\ UNCHANGED notPs

\* Parser::finish (parser.rs:197-250), every marker consumed
PsFinish ==
  /\ ps.pc = "parsing"
  /\ ps.open = << >>
  /\ LET f == finish(ps.tokens, ps.events)
     IN  ps' = [ps EXCEPT !.pc = IF f.panic THEN "finish panic" ELSE "finished",
                         !.tok_idx = f.tok_idx,
                         !.out = f.out,
                         !.ret = "none"]
  /\ UNCHANGED notPs

\* Parser::insert_infix (parser.rs:275-277)
PsInsertInfix ==
  /\ ps.pc = "parsing"
  /\ \E info \in PsInfixes :
       ps' = [ps EXCEPT !.fix_env = { i \in ps.fix_env : i.name # info.name } \cup {info},
                       !.ret = "none"]
  /\ UNCHANGED notPs

\* Parser::remove_infix (parser.rs:287-289)
PsRemoveInfix ==
  /\ ps.pc = "parsing"
  /\ \E name \in { i.name : i \in PsInfixes } :
       ps' = [ps EXCEPT !.fix_env = { i \in ps.fix_env : i.name # name },
                       !.ret = "none"]
  /\ UNCHANGED notPs

\* Parser::save (parser.rs:315-320); the caller holds one Save
PsSave ==
  /\ ps.pc = "parsing"
  /\ ps.save = << >>
  /\ ps' = [ps EXCEPT !.save = << Save(ps.tok_idx, Len(ps.events)) >>,
                      !.at_save = << [tok_idx |-> ps.tok_idx, events |-> ps.events,
                                      fix_env |-> ps.fix_env] >>,
                      !.modified = FALSE,
                      !.errors = FALSE,
                      !.ret = "none"]
  /\ UNCHANGED notPs

\* Parser::ok_since (parser.rs:323-334); the markers made since the save
\* are consumed, as their DropBomb demands
PsOkSince ==
  /\ ps.pc = "parsing"
  /\ ps.save # << >>
  /\ \A i \in DOMAIN ps.open : ps.open[i] < ps.save[1].events_len
  /\ ps' = [ok_since(ps, ps.save[1]) EXCEPT !.save = << >>]
  /\ UNCHANGED notPs

NextParse ==
  \/ PsEnter
  \/ PsAbandon
  \/ PsExit
  \/ PsPrecede
  \/ PsBump
  \/ PsError
  \/ PsFinish

SpecParse == InitParse /\ [][NextParse]_vars

\* the operations that record events, up to MaxSaveEvents events
BtEnter == Len(ps.events) < MaxSaveEvents /\ PsEnter

BtExit == Len(ps.events) < MaxSaveEvents /\ PsExit

BtBump == Len(ps.events) < MaxSaveEvents /\ PsBump

BtError == Len(ps.events) < MaxSaveEvents /\ PsError

NextBacktrack ==
  \/ BtEnter
  \/ BtExit
  \/ BtBump
  \/ BtError
  \/ PsInsertInfix
  \/ PsRemoveInfix
  \/ PsSave
  \/ PsOkSince

SpecBacktrack == InitBacktrack /\ [][NextBacktrack]_vars

(***************************************************************************)
(* Properties of St and get_match.                                         *)
(***************************************************************************)
\* the errors finish produces for the k-th deferred obligation, taken alone
ObErrors(k) == finish_match(st.subst, << >>, st.matches[k])

\* the errors of all deferred obligations, obligation by obligation in insertion order
AllObErrors == Concat([k \in 1..Len(st.matches) |-> ObErrors(k)])

Suffix(s, n) == SubSeq(s, Len(s) - n + 1, Len(s))

\* C1: finish resolves the deferred match obligations in insertion order: the
\* returned error list ends with the errors of the first obligation, then those
\* of the second, and so on, so that every error of an obligation inserted
\* earlier stands before every error of one inserted later.
C1_InsertionOrder ==
  st.done =>
    /\ Len(AllObErrors) <= Len(st.ret_errors)
    /\ Suffix(st.ret_errors, Len(AllObErrors)) = AllObErrors

\* C1 witness: two obligations, the first with an unreachable-pattern and a
\* non-exhaustive error, the second with errors of its own, have been resolved.
C1_Witness ==
  /\ st.done
  /\ Len(st.matches) >= 2
  /\ Len(ObErrors(1)) >= 2
  /\ ObErrors(2) # << >>
  /\ ObErrors(1) # ObErrors(2)

ListsOf(e, m, h) == << e, m, h >>

\* how many of the three lists differ between before and after
Changed(b, a) == Cardinality({ i \in 1..3 : b[i] # a[i] })

\* how many of the three lists are one element longer after than before
Grown(b, a) == Cardinality({ i \in 1..3 : Len(a[i]) = Len(b[i]) + 1 })

\* C2: the checking state grows monotonically: every step keeps the errors,
\* the match obligations and the holes recorded so far as a prefix of the new
\* lists, and a step that changes a list appends one element to exactly one
\* of the three and leaves the other two unchanged.
C2_GrowsMonotonically ==
  [][ LET b == ListsOf(st.errors, st.matches, st.holes)
          a == ListsOf(st'.errors, st'.matches, st'.holes)
      IN  /\ \A i \in 1..3 : IsPrefix(b[i], a[i])
          /\ Changed(b, a) <= 1
          /\ Changed(b, a) = Grown(b, a) ]_vars

\* C2 witness: each of the three lists has been appended to.
C2_Witness ==
  /\ ~st.done
  /\ st.errors # << >>
  /\ st.matches # << >>
  /\ st.holes # << >>

\* the raw indices of the UnreachablePattern errors that get_match appended
NewRaws ==
  [i \in 1..(Len(gm.errors_out) - Len(gm.errors)) |-> gm.errors_out[Len(gm.errors) + i].idx.raw]

Count(s, x) == Cardinality({ i \in 1..Len(s) : s[i] = x })

\* C4: for one obligation get_match appends only UnreachablePattern errors, in
\* ascending order of the raw pattern index whatever the order of the checker's
\* answer, one for each entry of the answer that carries an index.
C4_UnreachableAscending ==
  (gm.called /\ gm.ck.ok) =>
    /\ IsPrefix(gm.errors, gm.errors_out)
    /\ \A i \in (Len(gm.errors) + 1)..Len(gm.errors_out) :
         /\ gm.errors_out[i].kind = "UnreachablePattern"
         /\ gm.errors_out[i].idx.cat = "pat"
    /\ \A i, j \in 1..Len(NewRaws) : i < j => NewRaws[i] <= NewRaws[j]
    /\ \A n \in 0..MaxPatIdx : Count(NewRaws, n) = Count(gm.ck.unreachable, SomePatIdx(n))
    /\ gm.missing = gm.ck.missing

\* C4 witness: the checker answered with indices out of order and an entry
\* without index, and get_match has run.
C4_Witness ==
  /\ gm.called
  /\ gm.ck.ok
  /\ Len(gm.ck.unreachable) = 3
  /\ gm.ck.unreachable[1] = SomePatIdx(3)
  /\ gm.ck.unreachable[2] = NoPatIdx
  /\ gm.ck.unreachable[3] = SomePatIdx(1)
  /\ Len(NewRaws) = 2

\* the deferred obligations for which the pattern-match checker does not fail
RECURSIVE WithoutFailed(_)
WithoutFailed(ms) ==
  IF ms = << >> THEN << >>
  ELSE IF pattern_match_check(Head(ms).pats, apply(st.subst, Head(ms).want)).ok
       THEN << Head(ms) >> \o WithoutFailed(Tail(ms))
       ELSE WithoutFailed(Tail(ms))

\* C5: an obligation for which the pattern-match checker fails is a silent
\* no-op: finish returns the errors it would return without that obligation,
\* so nothing is added for it and the other obligations are resolved as usual.
C5_CheckerFailureSilent ==
  st.done =>
    st.ret_errors = St_finish(st.subst, st.errors, st.holes, WithoutFailed(st.matches))

\* C5 witness: finish resolved a failing Case obligation followed by an
\* obligation that does report errors.
C5_Witness ==
  /\ st.done
  /\ Len(st.matches) >= 2
  /\ st.matches[1].kind = "Case"
  /\ ~st.matches[1].pats.ck.ok
  /\ st.matches[2].pats.ck.ok
  /\ ObErrors(2) # << >>
  /\ st.ret_errors # << >>

(***************************************************************************)
(* Properties of the declaration checker.                                  *)
(***************************************************************************)
BuiltinSyms == 0..(Len(Syms_default) - 1)

\* C6: generativity: every symbol minted for a datatype binding differs from
\* every symbol minted before it and from the built-in symbols, so the types
\* Ctor([], s1) and Ctor([], s2) of two datatype bindings are never equal.
C6_Generativity ==
  /\ \A i, j \in 1..Len(dk.minted) :
       i # j => /\ dk.minted[i] # dk.minted[j]
                /\ TyCon(dk.minted[i]) # TyCon(dk.minted[j])
  /\ \A i \in 1..Len(dk.minted) : dk.minted[i] \notin BuiltinSyms

\* C6 witness: two datatype bindings of the same name have each minted a symbol.
C6_Witness ==
  /\ Len(dk.minted) >= 2
  /\ Syms_get(dk.syms, dk.minted[1]).name = Syms_get(dk.syms, dk.minted[2]).name

Range(f) == { f[x] : x \in DOMAIN f }

\* C8: within one `and`-group a constructor's argument type may name any
\* datatype of the group, also one bound later: checking such a constructor
\* never ends with an undefined-type error for a name of the group.
C8_GroupMayReferLater ==
  ~ ( /\ dk.pc = "done"
      /\ dk.result.tag = "Err"
      /\ dk.result.kind = "Undefined"
      /\ dk.result.name \in Range(dk.names) )

C9_Placeholder ==
  /\ dk.pc = "con" =>
       /\ dk.sym \in DOMAIN dk.datatypes
       /\ dk.datatypes[dk.sym] = DatatypeInfo(dk.sym, EmptyMap)
  /\ dk.result.tag # "Panic"

C9_Step ==
  /\ (dk.pc = "dat" /\ dk'.pc = "con") => dk'.sym \notin DOMAIN dk.datatypes
  /\ (dk.pc = "con" /\ dk'.pc = "dat") =>
       /\ dk.sym \in DOMAIN dk.datatypes
       /\ dk'.datatypes[dk.sym].ty_fcn = dk.sym
       /\ DOMAIN dk'.datatypes[dk.sym].val_env = Range(dk.cons)
       /\ \A vid \in Range(dk.cons) :
            dk'.datatypes[dk.sym].val_env[vid] = dk.bind_val_env[vid]
  /\ \A s \in DOMAIN dk.datatypes :
       /\ s \in DOMAIN dk'.datatypes
       /\ (dk'.datatypes[s] # dk.datatypes[s]) => (dk.pc = "con" /\ dk'.pc = "dat" /\ s = dk.sym)

\* C9: datatype checking is two-phase: while the constructors of a binding
\* with symbol s are checked datatypes[s] is the placeholder with the empty
\* value environment; the placeholder is inserted where there was no entry (no
\* assert fails); an entry changes only at the end of its binding, where the
\* placeholder is replaced by the entry with exactly the binding's constructors.
C9_TwoPhase == []C9_Placeholder /\ [][C9_Step]_vars

\* C9 witness: the second binding of a group has been completed, each binding
\* with its own constructors in its final entry.
C9_Witness ==
  /\ dk.pc = "dat"
  /\ dk.j = 2
  /\ Len(dk.minted) = 2
  /\ \A i \in 1..2 :
       /\ dk.minted[i] \in DOMAIN dk.datatypes
       /\ dk.datatypes[dk.minted[i]].val_env # EmptyMap
  /\ dk.datatypes[dk.minted[1]].val_env # dk.datatypes[dk.minted[2]].val_env

Max(S) == CHOOSE x \in S : \A y \in S : y <= x

\* the declarations of the sequence, among those checked so far, that bind name
Binders(field, name) == { i \in 1..Len(dk.envs) : name \in DOMAIN dk.envs[i][field] }

AllBound(field) == UNION { DOMAIN dk.envs[i][field] : i \in 1..Len(dk.envs) }

\* env binds, besides the names of base, the names the declarations checked so
\* far bind, each name as the last of them that binds it does
LastWins(env, base) ==
  \A field \in {"ty_env", "val_env"} :
    /\ DOMAIN env[field] = (DOMAIN base[field]) \cup AllBound(field)
    /\ \A name \in DOMAIN env[field] :
         env[field][name] =
           IF Binders(field, name) = {}
           THEN base[field][name]
           ELSE dk.envs[Max(Binders(field, name))][field][name]

\* C10: in a sequence of declarations the i-th declaration is checked in the
\* context extended with the bindings of declarations 1..i-1, a later binding
\* replacing an earlier one, and the environment returned for the sequence is
\* the left-to-right extension of their environments: the last binding wins.
C10_SeqThreadsContext ==
  /\ Len(dk.envs) = dk.ndecs
  /\ dk.pc \in {"dat", "con"} =>
       /\ LastWins(dk.seq_cx.env, Cx0.env)
       /\ dk.seq_cx.ty_names = Cx0.ty_names \cup AllBound("ty_env")
  /\ LastWins(dk.seq_ret, EnvDefault)
  /\ dk.result.tag = "Ok" => dk.result.env = dk.seq_ret

\* C10 witness: a sequence of two datatype declarations has been checked, the
\* second one binds a constructor name again and uses the type of the first.
C10_Witness ==
  /\ dk.pc = "done"
  /\ dk.result.tag = "Ok"
  /\ Len(dk.envs) = 2
  /\ \E vid \in (DOMAIN dk.envs[1].val_env) \cap (DOMAIN dk.envs[2].val_env) :
       /\ dk.envs[1].val_env[vid] # dk.envs[2].val_env[vid]
       /\ dk.result.env.val_env[vid] = dk.envs[2].val_env[vid]
  /\ \E vid \in DOMAIN dk.envs[2].val_env :
       dk.envs[2].val_env[vid].arg \in Range(dk.envs[1].ty_env)

(***************************************************************************)
(* Properties of the symbol table and of ck_exp.                           *)
(***************************************************************************)
\* the entry of the default table that each constant Sym::X must index
BuiltinNames ==
  { << SymBOOL, "bool" >>, << SymCHAR, "char" >>, << SymINT, "int" >>, << SymREAL, "real" >>,
    << SymSTRING, "string" >>, << SymWORD, "word" >>, << SymEXN, "exn" >>, << SymREF, "ref" >>,
    << SymLIST, "list" >>, << SymORDER, "order" >> }

C7_Resolves ==
  /\ \A i \in 1..Len(sy.issued) :
       /\ Syms_has(sy.store, sy.issued[i].sym)
       /\ Syms_get(sy.store, sy.issued[i].sym) = sy.issued[i].ty_info
       /\ sy.issued[i].sym \notin BuiltinSyms
       /\ \A j \in 1..Len(sy.issued) : i # j => sy.issued[i].sym # sy.issued[j].sym
  /\ \A n \in BuiltinSyms :
       /\ Syms_has(sy.store, n)
       /\ Syms_get(sy.store, n) = Syms_default[n + 1]
  /\ \A b \in BuiltinNames :
       /\ Syms_has(sy.store, b[1])
       /\ Syms_get(sy.store, b[1]).name = b[2]

C7_InsertIsNew ==
  Len(sy'.issued) = Len(sy.issued) + 1 =>
    ~Syms_has(sy.store, sy'.issued[Len(sy'.issued)].sym)

\* C7: the symbol table is append-only: every Sym returned by insert, and each
\* built-in constant BOOL..ORDER = 0..9, resolves through get to the TyInfo it
\* was created with; insert returns a Sym that no entry had before; and each
\* constant Sym::X indexes the entry named after its built-in type.
C7_AppendOnly == []C7_Resolves /\ [][C7_InsertIsNew]_vars

\* C7 witness: two inserts of different TyInfo have been made.
C7_Witness ==
  /\ Len(sy.issued) = 2
  /\ sy.issued[1].ty_info # sy.issued[2].ty_info
  /\ Syms_get(sy.store, sy.issued[1].sym).name = "bool"

\* C3: a handle expression is never reported as non-exhaustive: ck_exp on
\* Exp::Handle never fails with NonExhaustiveMatch, whatever the arms.
C3_HandleNeverNonExhaustive ==
  (ex.called /\ ex.form = "Handle") =>
    ~(ex.result.tag = "Err" /\ ex.result.kind = "NonExhaustiveMatch")

(***************************************************************************)
(* Properties of ck_exp on let.                                            *)
(***************************************************************************)
\* the type names of the result type of the let, after the substitution
LtResultNames == ty_names(lt.store, apply(lt.subst, lt.last.ty))

\* C11: a let whose body has been checked is rejected with TyNameEscape
\* exactly when its result type, after applying the current substitution,
\* mentions a type name that was not in scope before the declarations of the
\* let; when every type name of the result type was in scope before, the let is
\* accepted with the substituted result type.
C11_LetEscape ==
  lt.checked =>
    /\ (lt.result = LtErr("TyNameEscape")) <=>
         (\E n \in LtResultNames : n \notin lt.outer.ty_names)
    /\ (LtResultNames \subseteq lt.outer.ty_names) =>
         lt.result = LtOk(apply(lt.subst, lt.last.ty))

\* C11 witness: the let declares t, a type of that name was not in scope
\* before, and the result type names t only through a solved meta variable;
\* the let was rejected.
C11_Witness ==
  /\ lt.checked
  /\ "t" \notin lt.outer.ty_names
  /\ "t" \in lt.cx.ty_names
  /\ lt.last.ty.tag = "Fn"
  /\ ty_names(lt.store, lt.last.ty) = {"int"}
  /\ "t" \in LtResultNames
  /\ lt.result = LtErr("TyNameEscape")

(***************************************************************************)
(* Properties of ck on Dec::Val and Dec::Fun.                              *)
(***************************************************************************)
\* the built-in constructor names among the names the pattern of binding i binds
VbForbidden(i) == { vb.binds[i].keys[n] : n \in 1..Len(vb.binds[i].keys) } \cap ForbiddenNames

\* the names the bindings before binding i bind
VbBoundBefore(i) == UNION { { vb.binds[j].keys[n] : n \in 1..Len(vb.binds[j].keys) } : j \in 1..(i - 1) }

\* binding i is a binding the checker accepts
VbChecks(i) ==
  /\ ~vb.binds[i].rec
  /\ vb.binds[i].pat_ok
  /\ VbForbidden(i) = {}
  /\ vb.binds[i].rest = "ok"
  /\ { vb.binds[i].keys[n] : n \in 1..Len(vb.binds[i].keys) } \cap VbBoundBefore(i) = {}

VbForbiddenAt(i) ==
  /\ vb.result.tag = "Err"
  /\ vb.result.kind = "ForbiddenBinding"
  /\ vb.result.name \in VbForbidden(i)
  /\ vb.result.loc = VbLoc("pat", i)

C13_FunForbidden ==
  (vb.called /\ vb.form = "Fun" /\ ~vb.ty_vars) =>
    \A i \in 1..Len(vb.binds) :
      ( /\ vb.binds[i].vid \in ForbiddenNames
        /\ \A j \in 1..Len(vb.binds) : vb.binds[j].cases = "ok"
        /\ \A j \in 1..Len(vb.binds) : j # i => vb.binds[j].vid # vb.binds[i].vid ) =>
        vb.result = VbErr("ForbiddenBinding", vb.binds[i].vid, VbLoc("vid", i))

(***************************************************************************)
(* Properties of ck_exp on records and tuples.                             *)
(***************************************************************************)
\* the rows whose label stands in an earlier row as well
RcRepeats == { i \in 1..Len(rc.rows) : \E j \in 1..(i - 1) : rc.rows[j].lab = rc.rows[i].lab }

C16_ErrorsAreLocal ==
  sq.pc = "done" =>
    /\ sq.i = Len(sq.decs)
    /\ \A n \in 1..Len(sq.decs) :
         seq_dec_result(sq.decs[n]).tag = "Err" =>
           (sq.failed = n /\ sq.result = seq_dec_result(sq.decs[n]))

(***************************************************************************)
(* Properties of pat::get and ty::get (SpecPat).                           *)
(***************************************************************************)
\* pat::get has run on a constructor or identifier pattern
PtConCalled == pt.called /\ pt.kind = "pat" /\ pt.input.tag = "Con"

\* the path of the pattern leads to an entry of a value environment
PtKnown(path) ==
  LET e == get_env(PtCx.env, path.structures)
  IN  e.ok /\ path.last \in DOMAIN e.env.val_env

\* that entry
PtValInfo(path) == get_env(PtCx.env, path.structures).env.val_env[path.last]

\* the path is known as a constructor or an exception constructor
PtKnownCon(path) == PtKnown(path) /\ PtValInfo(path).id_status \in {"Con", "Exn"}

\* C17: no pattern and no type of the IR makes pat::get or ty::get panic:
\* every call returns a result.
C17_NeverPanics == pt.called => ~pt.result.panic

\* C18: an identifier pattern is a constructor match (a Variant) only when the
\* identifier is known as a constructor or exception constructor; an
\* unqualified identifier without argument that is not known as a constructor,
\* one bound as an ordinary value included, is a fresh variable: a wildcard
\* typed by a fresh meta variable, with no error recorded.
C18_IdentifierPattern ==
  PtConCalled =>
    /\ (~pt.result.panic /\ pt.result.pat.con.kind = "Variant") => PtKnownCon(pt.input.path)
    /\ (pt.input.arg.tag = "NoArg" /\ pt.input.path.structures = << >>
          /\ ~PtKnownCon(pt.input.path))
         => pt.result = any(PtStNew)

\* the result of pat::get on the argument of the pattern, when it has one
PtArg ==
  IF pt.input.arg.tag = "NoArg" THEN PtRet(PtStNew, PmAny, TyNone)
  ELSE pat_get(PtStNew, PtCx, pt.input.arg)

\* the errors recorded after those of the argument
PtAdded ==
  SubSeq(pt.result.st.errors, Len(PtArg.st.errors) + 1, Len(pt.result.st.errors))

\* the datatype of a constructor scheme
PtDatatype(ty) == IF ty.tag = "Fn" THEN ty.res.arg ELSE ty.arg

\* C19: a pattern of a known constructor whose scheme is a function type and
\* that has no argument records PatMustHaveArg; one whose scheme is not a
\* function type and that has an argument records PatMustNotHaveArg; in both
\* cases, and when the arity matches, the result is a Variant pattern of the
\* constructor's datatype; when the arity matches neither error is recorded.
C19_ConstructorArity ==
  (PtConCalled /\ PtKnownCon(pt.input.path) /\ ~PtArg.panic) =>
    LET ty      == PtValInfo(pt.input.path).ty_scheme.ty
        is_fn   == ty.tag = "Fn"
        has_arg == pt.input.arg.tag # "NoArg"
    IN  /\ ~pt.result.panic
        /\ pt.result.pat.con.kind = "Variant"
        /\ pt.result.pat.con.sym = PtDatatype(ty)
        /\ pt.result.pat.con.name = pt.input.path.last
        /\ SubSeq(pt.result.st.errors, 1, Len(PtArg.st.errors)) = PtArg.st.errors
        /\ (is_fn /\ ~has_arg) => PtAdded = << "PatMustHaveArg" >>
        /\ (~is_fn /\ has_arg) => PtAdded = << "PatMustNotHaveArg" >>
        /\ (is_fn <=> has_arg) =>
             \A i \in 1..Len(PtAdded) : PtAdded[i] \notin {"PatMustHaveArg", "PatMustNotHaveArg"}

\* pat::get has checked the pattern `ref` without its argument: the error is
\* recorded and the result is the Variant of ref
C19_Witness ==
  /\ PtConCalled
  /\ pt.input = HPatCon(Path(<< >>, "ref"), NoArg)
  /\ pt.result.st.errors = << "PatMustHaveArg" >>
  /\ pt.result.pat = PmVariant(SymREF, "ref", << PmAny >>)

(***************************************************************************)
(* Properties of the end of the entry point (SpecGet).                     *)
(***************************************************************************)
\* C20: after St::finish has applied the substitution to every recorded
\* type, the second application by get leaves every type as finish left it.
C20_ApplyIdempotent == lg.pc = "returned" => lg.info = lg.finished

\* get has returned after a node was recorded with the meta variable 0, which
\* unification solved through the meta variable 1: finish resolved the chain
C20_Witness ==
  /\ lg.pc = "returned"
  /\ lg.recorded # << >>
  /\ lg.recorded[1] = TyMetaVar(0)
  /\ lg.subst[0] = TyMetaVar(1)
  /\ lg.subst[1] = TyCon(SymINT)
  /\ lg.finished[1] = TyCon(SymINT)

(***************************************************************************)
(* Properties of St::finish: holes and the order of the returned errors.   *)
(***************************************************************************)
\* the type of the i-th deferred hole under the final substitution
HoleTy(i) ==
  IF st.subst[st.holes[i][1]] # Unsolved THEN st.subst[st.holes[i][1]]
  ELSE TyMetaVar(st.holes[i][1])

NonExhaustiveKinds == {"NonExhaustiveBinding", "NonExhaustiveCase"}

\* C25: finish reports exactly one ExpHole error for every deferred hole, with
\* the hole's meta variable under the final substitution; the returned list is
\* the errors recorded during checking in their order, then the hole errors in
\* hole-insertion order, then the errors of the match obligations; within one
\* Bind or Case obligation the unreachable-pattern errors stand before its
\* non-exhaustive error.
C25_FinishHolesAndOrder ==
  st.done =>
    LET ret == st.ret_errors
        n   == Len(st.errors)
        h   == Len(st.holes)
    IN  /\ Len(ret) = n + h + Len(AllObErrors)
        /\ SubSeq(ret, 1, n) = st.errors
        /\ \A i \in 1..h : ret[n + i] = Error(st.holes[i][2], "ExpHole", HoleTy(i), << >>)
        /\ Cardinality({ p \in DOMAIN ret : ret[p].kind = "ExpHole" }) = h
        /\ SubSeq(ret, n + h + 1, Len(ret)) = AllObErrors
        /\ \A p \in (n + h + 1)..Len(ret) :
             ret[p].kind \in NonExhaustiveKinds \cup {"UnreachablePattern"}
        /\ \A k \in 1..Len(st.matches) :
             st.matches[k].kind \in {"Bind", "Case"} =>
               \A i, j \in DOMAIN ObErrors(k) :
                 (ObErrors(k)[i].kind = "UnreachablePattern"
                    /\ ObErrors(k)[j].kind \in NonExhaustiveKinds) => i < j

\* finish has run on a hole whose meta variable was solved and on a Case
\* obligation with an unreachable arm and a missing witness
C25_Witness ==
  /\ st.done
  /\ Len(st.holes) = 1
  /\ Len(st.ret_errors) = 3
  /\ st.ret_errors[1].kind = "ExpHole"
  /\ st.ret_errors[1].ty = TyCon(SymBOOL)
  /\ st.ret_errors[2].kind = "UnreachablePattern"
  /\ st.ret_errors[3].kind = "NonExhaustiveCase"

(***************************************************************************)
(* Properties of exhaustiveness on bool (SpecCase).                        *)
(***************************************************************************)
\* finish has resolved a Case obligation with these arms
BoolCaseDone(arms) ==
  /\ st.done
  /\ Len(st.matches) = 1
  /\ st.matches[1].kind = "Case"
  /\ st.matches[1].pats.arms = arms

\* C22: a Case obligation of type bool with the single arm true yields one
\* missing witness, false, and no unreachable arm; one with the arms true,
\* false, true yields the third arm as the only unreachable arm and no
\* non-exhaustive error.
C22_BoolExhaustiveness ==
  /\ BoolCaseDone(<< "true" >>) =>
       st.ret_errors = << Error(NodeIdx(1), "NonExhaustiveCase", TyNone, << "false" >>) >>
  /\ BoolCaseDone(<< "true", "false", "true" >>) =>
       st.ret_errors = << Error(Idx("pat", 3), "UnreachablePattern", TyNone, << >>) >>

\* finish has resolved the Case with the arms true, false, true and reported
\* its third arm
C22_Witness ==
  /\ BoolCaseDone(<< "true", "false", "true" >>)
  /\ Len(st.ret_errors) = 1
  /\ st.ret_errors[1].kind = "UnreachablePattern"

(***************************************************************************)
(* Properties of the entry point on a persistent Statics value (SpecEntry).*)
(***************************************************************************)
\* C21: after every call of get one state was created and one finished per
\* call, the persistent error list is the list before the call extended with
\* the errors of the call, and the persistent symbol table holds every symbol
\* it held before the call, unchanged.
C21_FoldBack ==
  (ep.pc = "returned" /\ ep.calls > 0) =>
    /\ ep.news = ep.calls
    /\ ep.finishes = ep.calls
    /\ ep.statics.errors = ep.before.errors \o ep.new_errors
    /\ ep.new_errors = ep.st_errors
    /\ IsPrefix(ep.before.syms, ep.statics.syms)

\* the second call has returned; both calls recorded an error and the first
\* issued a symbol
C21_Witness ==
  /\ ep.pc = "returned"
  /\ ep.calls = 2
  /\ ep.before.errors # << >>
  /\ ep.new_errors # << >>
  /\ Len(ep.before.syms) > Len(Syms_default)

(***************************************************************************)
(* Properties of the pre-seeded symbol table (SpecSeed).                   *)
(***************************************************************************)
\* the built-in types of the table
SdBuiltIn == 1..Len(Syms_default_schemes)

\* C28: every built-in type's scheme is arity-consistent: its constructor
\* application has as many argument types as the scheme binds variables;
\* every bound-variable index in the scheme of a built-in type or of one of
\* its constructors is smaller than the number of bound variables; the result
\* type of every constructor is the scheme type of its type.
C28_SeedArityConsistent ==
  \A i \in SdBuiltIn :
    LET info == sd.store[i]
    IN  /\ Len(info.ty_scheme.ty.args) = info.ty_scheme.vars
        /\ \A v \in bound_vars_of(info.ty_scheme.ty) : v < info.ty_scheme.vars
        /\ \A n \in DOMAIN info.val_env :
             LET s == info.val_env[n].ty_scheme
             IN  /\ \A v \in bound_vars_of(s.ty) : v < s.vars
                 /\ (IF s.ty.tag = "Fn" THEN s.ty.res ELSE s.ty) = info.ty_scheme.ty

(***************************************************************************)
(* Properties of block_comment::get (SpecComment).                         *)
(***************************************************************************)
\* the bytes at p and p + 1 are the two given ones
BcAt(bs, p, x, y) == p + 1 < Len(bs) /\ bs[p + 1] = x /\ bs[p + 2] = y

\* the index just past the `*)` at which the depth, depth at p, first returns
\* to zero, the delimiters read from left to right; -1 when there is none
RECURSIVE BcCloseOf(_, _, _)
BcCloseOf(bs, p, depth) ==
  IF p + 1 >= Len(bs) THEN -1
  ELSE IF BcAt(bs, p, "(", "*") THEN BcCloseOf(bs, p + 2, depth + 1)
  ELSE IF BcAt(bs, p, "*", ")")
       THEN IF depth = 1 THEN p + 2 ELSE BcCloseOf(bs, p + 2, depth - 1)
  ELSE BcCloseOf(bs, p + 1, depth)

\* C23: at a `(*` get returns Consumed with the index just past the `*)` at
\* which the nesting depth first returns to zero, and Unmatched::Open when
\* there is none; at a `*)` it returns Unmatched::Close with the index
\* advanced by 2; at any other byte it returns None and leaves the index; the
\* loop never takes its unreachable branch and runs at most once per byte.
C23_BlockCommentsNest ==
  /\ bc.result # "Unreachable"
  /\ bc.steps <= Len(bc.bs)
  /\ bc.idx <= Len(bc.bs)
  /\ bc.pc = "done" =>
       IF BcAt(bc.bs, bc.idx0, "(", "*")
       THEN LET e == BcCloseOf(bc.bs, bc.idx0 + 2, 1)
            IN  IF e >= 0 THEN bc.result = "Consumed" /\ bc.idx = e
                ELSE bc.result = "Open"
       ELSE IF BcAt(bc.bs, bc.idx0, "*", ")")
            THEN bc.result = "Close" /\ bc.idx = bc.idx0 + 2
            ELSE bc.result = "None" /\ bc.idx = bc.idx0

\* get has consumed a comment that holds a comment
C23_Witness ==
  /\ bc.pc = "done"
  /\ bc.result = "Consumed"
  /\ bc.bs = << "(", "*", "(", "*", "*", ")", "*", ")" >>
  /\ bc.idx0 = 0
  /\ bc.idx = Len(bc.bs)

(***************************************************************************)
(* Properties of the ML Basis lexer (SpecLex).                             *)
(***************************************************************************)
\* C26: the lexer never aborts and makes progress: no call panics, the index
\* never exceeds the length of the input, and every token range lies within
\* the input; every iteration that goes on has increased the index.
C26_LexerNeverAborts ==
  /\ lx.pc # "panic"
  /\ lx.idx <= Len(lx.bs)
  /\ \A i \in DOMAIN lx.tokens : lx.tokens[i][1] < lx.tokens[i][2] /\ lx.tokens[i][2] <= Len(lx.bs)
  /\ (lx.pc \in {"loop", "ok"} /\ lx.idx > 0) => lx.old < lx.idx

(***************************************************************************)
(* Properties of get_input (SpecInput).                                    *)
(***************************************************************************)
\* the groups reachable from the groups of S in at most n steps
RECURSIVE GiReach(_, _)
GiReach(S, n) ==
  IF n = 0 THEN S
  ELSE GiReach(S \cup UNION { { gi.cm[g][i] : i \in DOMAIN gi.cm[g] } : g \in S }, n - 1)

\* C27: get_input terminates for every finite file system, also when group
\* files depend on each other cyclically or a group is reachable through
\* several paths: the work-list is eventually empty and the call returns; on
\* success the result holds one entry for every group reachable from the root.
C27_GetInputTerminates ==
  /\ <>(gi.pc \in {"done", "capped"})
  /\ [](gi.pc = "done" => gi.groups = GiReach({1}, MaxGroups))

(***************************************************************************)
(* Properties of save and ok_since (SpecBacktrack).                        *)
(***************************************************************************)
\* C24: ok_since(save) returns true exactly when no Error event has been
\* recorded since the save; when it returns false and no event from before
\* the save was written in between, the token index and the events are those
\* at the save; when it returns true the token index and the events are left
\* as they were.
C24_OkSince ==
  [][(ps.save # << >> /\ ps'.save = << >>) =>
       /\ ps'.ret \in {"true", "false"}
       /\ (ps'.ret = "true") <=> ~ps.errors
       /\ (ps'.ret = "false" /\ ~ps.modified) =>
            /\ ps'.tok_idx = ps.at_save[1].tok_idx
            /\ ps'.events = ps.at_save[1].events
       /\ (ps'.ret = "true") =>
            /\ ps'.tok_idx = ps.tok_idx
            /\ ps'.events = ps.events]_vars

\* ok_since has returned false after a save made with events recorded and
\* a token consumed
C24_Witness ==
  /\ ps.ret = "false"
  /\ ~ps.modified
  /\ ps.at_save # << >>
  /\ ps.at_save[1].events # << >>
  /\ ps.at_save[1].tok_idx > 0
  /\ ps.tok_idx < Len(ps.tokens)

\* C30: when ok_since(save) returns false, every insert_infix and
\* remove_infix performed since the save is rolled back: the fixity
\* environment equals the one at the save.
C30_FixityRolledBack ==
  [][(ps.save # << >> /\ ps'.save = << >> /\ ps'.ret = "false") =>
       ps'.fix_env = ps.at_save[1].fix_env]_vars

(***************************************************************************)
(* Properties of finish (SpecParse).                                       *)
(***************************************************************************)
\* the nesting level after the first n items handed to the sink
RECURSIVE OutLevel(_)
OutLevel(n) ==
  IF n = 0 THEN 0
  ELSE OutLevel(n - 1) + (CASE ps.out[n].tag = "enter" -> 1
                            [] ps.out[n].tag = "exit" -> 0 - 1
                            [] OTHER -> 0)

\* where the node of the Enter event at index at is opened and closed
OutOpen(at) == CHOOSE n \in DOMAIN ps.out : ps.out[n] .tag = "enter" /\ ps.out[n].at = at

OutClose(at) ==
  CHOOSE n \in DOMAIN ps.out :
    /\ n > OutOpen(at)
    /\ OutLevel(n) = OutLevel(OutOpen(at) - 1)
    /\ \A m \in (OutOpen(at) + 1)..(n - 1) : OutLevel(m) > OutLevel(OutOpen(at) - 1)

IsSinkToken(o) == o.tag = "token"

\* the indices of the tokens handed to the sink, in the order handed over
OutTokens == [n \in DOMAIN SelectSeq(ps.out, IsSinkToken) |-> SelectSeq(ps.out, IsSinkToken)[n].at]

\* the indices of the events of a tag
EventsOf(tag) == { i \in 0..(Len(ps.events) - 1) : ps.events[i + 1].tag = tag }

\* the tree is well nested: the level never goes below zero, is zero at the
\* end, and every node opened is closed
WellNested ==
  /\ \A n \in 0..Len(ps.out) : OutLevel(n) >= 0
  /\ OutLevel(Len(ps.out)) = 0
  /\ \A n \in DOMAIN ps.out :
       ps.out[n].tag = "enter" => \E m \in DOMAIN ps.out : m > n /\ OutLevel(m) = OutLevel(n - 1)

\* one node for every exited marker, none for an abandoned one
NodesAreExited ==
  /\ { ps.out[n].at : n \in { m \in DOMAIN ps.out : ps.out[m].tag = "enter" } } = EventsOf("Enter")
  /\ Cardinality({ m \in DOMAIN ps.out : ps.out[m].tag = "enter" }) = Cardinality(EventsOf("Enter"))

\* a node made by precede and exit encloses the node it preceded
PrecedeEncloses ==
  \A i \in EventsOf("Enter") :
    LET parent == ps.events[i + 1].parent
    IN  (parent # << >> /\ parent[1] \in EventsOf("Enter")) =>
          /\ OutOpen(parent[1]) < OutOpen(i)
          /\ OutClose(i) < OutClose(parent[1])

================================================================================
